---- MODULE Spec2Model ----
(***************************************************************************)
(* Player progression engine of neon-arcade.                               *)
(*                                                                         *)
(*   - src/src/hooks/useAchievements.ts : the achievement hook (React      *)
(*     state, the closures of one render, the persisted record);           *)
(*   - src/src/hooks/useLineraClient.ts : the client hook (local store,    *)
(*     backend selection, submissions and profile queries);                *)
(*   - src/src/lib/linera/client.ts     : the remote client module.        *)
(*                                                                         *)
(* A React hook is modelled by its state (the value of the last setX),     *)
(* the values captured by the closures of the last render (what a call     *)
(* of trackGamePlayed, checkAndUnlock, submit... actually reads), and the  *)
(* render step that refreshes the closures from the state.                 *)
(***************************************************************************)
EXTENDS Integers, Sequences, FiniteSets, TLC

(***************************************************************************)
(* Bounds of the model.                                                    *)
(***************************************************************************)
MaxCalls == 3

(***************************************************************************)
(* useAchievements.ts                                                      *)
(***************************************************************************)
VARIABLES
    achievements,      \* useState: the achievement list (last value set)
    stats,             \* useState: AchievementStats (last value set)
    recentUnlock,      \* useState: the last unlock, or NoUnlock
    rAchievements,     \* `achievements` as captured by the current closures
    rStats,            \* `stats` as captured by the current closures
    achStorage,        \* localStorage['linera-achievements']
    loadPending,       \* the mount effect has not run yet
    calls,             \* calls of the hook's operations made so far
    lastCall,          \* the last operation called: "track", "check", ...
    lastRet,           \* what the last operation returned
    trackAwarded,      \* ids returned by some trackGamePlayed call so far
    checkAwarded       \* ids for which checkAndUnlock returned true so far

achVars == <<achievements, stats, recentUnlock, rAchievements, rStats,
             achStorage, loadPending, calls, lastCall, lastRet,
             trackAwarded, checkAwarded>>

(***************************************************************************)
(* useLineraClient.ts (the hook of lines 346-937) and lib/linera/client.ts *)
(***************************************************************************)
VARIABLES
    appConfigured,     \* isLineraConfigured(): VITE_LINERA_APP_ID is set
    modState,          \* client.ts: isInitialized, initializationAttempted,
                       \* lineraModule (TRUE when the SDK module is loaded)
    lc,                \* the lineraClient singleton: client, wallet, chainId
    hook,              \* useState: isConnected, isConnecting, wallet,
                       \* usingDemoMode (last values set)
    rHook,             \* isConnected, wallet, usingDemoMode as captured by
                       \* the current closures
    initAttempted,     \* useRef: initAttempted.current
    ls,                \* localStorage: the tables of the local store
    pending,           \* local-mode calls waiting on their 200 ms timer
    connectTimers,     \* connect() calls waiting on their 800 ms timer
    cCalls,            \* submissions and queries called so far
    connects,          \* connect() calls made so far
    initAttempts,      \* remote initializations attempted in this session
    lastInitRet,       \* what the last initializeLinera call returned
    servedRemote,      \* some call of this session went to lineraClient
    snakeMax,          \* per address, the maximum snake score submitted
    lastDone           \* the last call that returned, and its result

clientVars == <<appConfigured, modState, lc, hook, rHook, initAttempted, ls,
                pending, connectTimers, cCalls, connects, initAttempts,
                lastInitRet, servedRemote, snakeMax, lastDone>>

(***************************************************************************)
(* getLeaderboard: the stored tables as the query reads them               *)
(***************************************************************************)
VARIABLES
    tables,            \* localStorage as JSON.parse returns it: each table
                       \* is the list of its (address, value) entries in
                       \* key order
    lbRet,             \* what the last leaderboard query returned
    lcRet              \* what the last operation of the remote adapter
                       \* returned, and the queries it issued

boardVars == <<tables, lbRet, lcRet>>

(***************************************************************************)
(* SnakeGame (components/layout/Navbar.tsx, lines 176-632)                 *)
(***************************************************************************)
VARIABLES
    gameState,         \* useState: "idle", "playing" or "gameover"
    roundScore,        \* useState `score`: the score of the round
    highScore,         \* useState: the high score
    headAtWall,        \* the snake state: the next step of the head collides
    rGame,             \* gameState, score, highScore as captured by the
                       \* callbacks of the last render (moveSnake in the
                       \* interval, handleGameOver, startGame)
    lastUpdater,       \* what the setSnake updater of the last tick did
    roundTracks        \* trackGamePlayed calls since the round was started

gameVars == <<gameState, roundScore, highScore, headAtWall, rGame, lastUpdater,
              roundTracks>>

(***************************************************************************)
(* Two tabs of the page on one localStorage (useLineraClient.ts, lines     *)
(* 602-620 in each tab)                                                    *)
(***************************************************************************)
VARIABLES
    tabs,              \* per tab: where its submitTicTacToeResult call is,
                       \* its argument, and the storedStats it parsed
    tabCalls,          \* calls made in the two tabs
    submitted,         \* calls that returned true
    lastWrite          \* the tab that wrote last, what it had parsed and
                       \* its argument

tabVars == <<tabs, tabCalls, submitted, lastWrite>>

VARIABLE
    sessionAddress     \* history: the first wallet address of the session

vars == <<achVars, clientVars, boardVars, gameVars, tabVars, sessionAddress>>

\* The ids of ALL_ACHIEVEMENTS, in catalogue order.
ALL_ACHIEVEMENTS ==
    << "first_game", "play_10", "play_50", "play_100", "first_win",
       "win_streak_3", "win_streak_5", "win_streak_10",
       "snake_50", "snake_100", "snake_200", "snake_500", "snake_no_walls",
       "ttt_first_win", "ttt_5_wins", "ttt_perfect", "ttt_20_wins",
       "sl_first_win", "sl_ladder_3", "sl_no_snakes", "sl_comeback",
       "uno_first_win", "uno_plus4", "uno_reverse", "uno_domination",
       "uno_speedrun" >>

AchIds == { ALL_ACHIEVEMENTS[i] : i \in DOMAIN ALL_ACHIEVEMENTS }

\* An Achievement[] value.  The list is either empty (`full` is FALSE) or
\* holds one entry per catalogue id; `at` maps the ids of the entries with
\* unlocked: true to their unlockedAt (a locked entry has none).
NoneUnlocked == [id \in {} |-> 0]

\* ALL_ACHIEVEMENTS.map(a => ({ ...a, unlocked: false }))
AllLocked == [full |-> TRUE, at |-> NoneUnlocked]

\* useState<Achievement[]>([]): the empty list
EmptyList == [full |-> FALSE, at |-> NoneUnlocked]

\* list.find(a => a.id === id) is defined
Found(list, id) == list.full /\ id \in AchIds

\* list.find(a => a.id === id).unlocked
IsUnlocked(list, id) == id \in DOMAIN list.at

\* list.map(a => a.id === id ? { ...a, unlocked: true, unlockedAt: t } : a)
Unlock(list, id, t) ==
    IF Found(list, id) THEN [list EXCEPT !.at = (id :> t) @@ list.at] ELSE list

\* useState<AchievementStats>({ totalGames: 0, ... })
ZeroStats ==
    [totalGames |-> 0, totalWins |-> 0, currentWinStreak |-> 0,
     bestWinStreak |-> 0, snakeHighScore |-> 0, tttWins |-> 0,
     slWins |-> 0, unoWins |-> 0]

\* useState<Achievement | null>(null)
NoUnlock == [id |-> "none", unlockedAt |-> 0]


\* The games a result is reported for.
Games == {"snake", "tictactoe", "snakeladders", "uno"}

\* extraData: score 0 stands for a missing (or falsy) score.
NoExtra ==
    [score |-> 0, perfectTTT |-> FALSE, playedPlus4 |-> FALSE,
     wonWithReverse |-> FALSE, noSnakesHit |-> FALSE]

\* The results reported in the model, <<game, won, extraData>>: games won
\* and lost without extraData (a lost game updates the same counters
\* whatever the game), snake rounds with a score (won when SnakeGame sees a
\* new high score), and each flag of extraData with its game.
TrackInputs ==
    {<<"tictactoe", TRUE, NoExtra>>, <<"tictactoe", FALSE, NoExtra>>,
     <<"uno", TRUE, NoExtra>>,
     <<"snake", TRUE, [NoExtra EXCEPT !.score = 50]>>,
     <<"snake", TRUE, [NoExtra EXCEPT !.score = 100]>>,
     <<"snake", FALSE, [NoExtra EXCEPT !.score = 50]>>,
     <<"tictactoe", TRUE, [NoExtra EXCEPT !.perfectTTT = TRUE]>>,
     <<"uno", FALSE, [NoExtra EXCEPT !.playedPlus4 = TRUE]>>,
     <<"uno", TRUE, [NoExtra EXCEPT !.wonWithReverse = TRUE]>>,
     <<"snakeladders", TRUE, [NoExtra EXCEPT !.noSnakesHit = TRUE]>>}

\* UpdateStreak with the `else` branch (line 150) lost: no reset on a loss.
UpdateStreakNoReset(s, won) ==
    LET cws == IF won THEN s.currentWinStreak + 1 ELSE s.currentWinStreak
    IN  [s EXCEPT !.totalGames = s.totalGames + 1,
                  !.totalWins = IF won THEN s.totalWins + 1 ELSE s.totalWins,
                  !.currentWinStreak = cws,
                  !.bestWinStreak = IF won /\ cws > s.bestWinStreak
                                    THEN cws ELSE s.bestWinStreak]

\* Lines 142-151: totalGames, totalWins and the two streak counters.
UpdateStreak(s, won) ==
    LET cws == IF won THEN s.currentWinStreak + 1 ELSE 0
    IN  [s EXCEPT !.totalGames = s.totalGames + 1,
                  !.totalWins = IF won THEN s.totalWins + 1 ELSE s.totalWins,
                  !.currentWinStreak = cws,
                  !.bestWinStreak = IF won /\ cws > s.bestWinStreak
                                    THEN cws ELSE s.bestWinStreak]

\* Lines 154-161: the game-specific counters.
UpdateGameStats(s, game, won, extra) ==
    [s EXCEPT !.snakeHighScore =
                  IF game = "snake" /\ extra.score # 0
                     /\ extra.score > s.snakeHighScore
                  THEN extra.score ELSE s.snakeHighScore,
              !.tttWins = IF game = "tictactoe" /\ won THEN @ + 1 ELSE @,
              !.slWins = IF game = "snakeladders" /\ won THEN @ + 1 ELSE @,
              !.unoWins = IF game = "uno" /\ won THEN @ + 1 ELSE @]

\* newStats of trackGamePlayed, computed from the stats the closure holds.
NewStats(s, game, won, extra) ==
    UpdateGameStats(UpdateStreak(s, won), game, won, extra)

\* Condition with first_win reading totalGames in place of totalWins.
ConditionFirstWinOnGames(id, s) ==
    CASE id = "first_game"     -> s.totalGames >= 1
      [] id = "play_10"        -> s.totalGames >= 10
      [] id = "play_50"        -> s.totalGames >= 50
      [] id = "play_100"       -> s.totalGames >= 100
      [] id = "first_win"      -> s.totalGames >= 1
      [] id = "win_streak_3"   -> s.currentWinStreak >= 3
      [] id = "win_streak_5"   -> s.currentWinStreak >= 5
      [] id = "win_streak_10"  -> s.currentWinStreak >= 10
      [] id = "snake_50"       -> s.snakeHighScore >= 50
      [] id = "snake_100"      -> s.snakeHighScore >= 100
      [] id = "snake_200"      -> s.snakeHighScore >= 200
      [] id = "snake_500"      -> s.snakeHighScore >= 500
      [] id = "ttt_first_win"  -> s.tttWins >= 1
      [] id = "ttt_5_wins"     -> s.tttWins >= 5
      [] id = "ttt_20_wins"    -> s.tttWins >= 20
      [] id = "sl_first_win"   -> s.slWins >= 1
      [] id = "uno_first_win"  -> s.unoWins >= 1
      [] id = "uno_domination" -> s.unoWins >= 10
      [] OTHER                 -> FALSE

\* The `condition` of each entry of checkAchievements (lines 166-194).
Condition(id, s) ==
    CASE id = "first_game"     -> s.totalGames >= 1
      [] id = "play_10"        -> s.totalGames >= 10
      [] id = "play_50"        -> s.totalGames >= 50
      [] id = "play_100"       -> s.totalGames >= 100
      [] id = "first_win"      -> s.totalWins >= 1
      [] id = "win_streak_3"   -> s.currentWinStreak >= 3
      [] id = "win_streak_5"   -> s.currentWinStreak >= 5
      [] id = "win_streak_10"  -> s.currentWinStreak >= 10
      [] id = "snake_50"       -> s.snakeHighScore >= 50
      [] id = "snake_100"      -> s.snakeHighScore >= 100
      [] id = "snake_200"      -> s.snakeHighScore >= 200
      [] id = "snake_500"      -> s.snakeHighScore >= 500
      [] id = "ttt_first_win"  -> s.tttWins >= 1
      [] id = "ttt_5_wins"     -> s.tttWins >= 5
      [] id = "ttt_20_wins"    -> s.tttWins >= 20
      [] id = "sl_first_win"   -> s.slWins >= 1
      [] id = "uno_first_win"  -> s.unoWins >= 1
      [] id = "uno_domination" -> s.unoWins >= 10
      [] OTHER                 -> FALSE

\* The ids of checkAchievements, in the order of the array literal.
CounterChecks ==
    << "first_game", "play_10", "play_50", "play_100", "first_win",
       "win_streak_3", "win_streak_5", "win_streak_10",
       "snake_50", "snake_100", "snake_200", "snake_500",
       "ttt_first_win", "ttt_5_wins", "ttt_20_wins",
       "sl_first_win", "uno_first_win", "uno_domination" >>

CounterIds == { CounterChecks[i] : i \in DOMAIN CounterChecks }

\* FlagChecks without the tests of extraData (lines 197-200): the four
\* entries are pushed on every call.
FlagChecksAlways(extra) ==
    <<"ttt_perfect", "uno_plus4", "uno_reverse", "sl_no_snakes">>

\* Lines 197-200: the entries pushed for the flags of extraData.
FlagChecks(extra) ==
    (IF extra.perfectTTT THEN <<"ttt_perfect">> ELSE <<>>)
    \o (IF extra.playedPlus4 THEN <<"uno_plus4">> ELSE <<>>)
    \o (IF extra.wonWithReverse THEN <<"uno_reverse">> ELSE <<>>)
    \o (IF extra.noSnakesHit THEN <<"sl_no_snakes">> ELSE <<>>)

\* TrueChecks of an array with one more entry: uno_speedrun on a won game
\* of uno.
TrueChecksSpeedrun(newStats, extra) ==
    SelectSeq(CounterChecks, LAMBDA id : Condition(id, newStats))
    \o (IF newStats.unoWins >= 1 THEN <<"uno_speedrun">> ELSE <<>>)
    \o FlagChecks(extra)

\* The ids of checkAchievements whose condition is true, in array order.
TrueChecks(newStats, extra) ==
    SelectSeq(CounterChecks, LAMBDA id : Condition(id, newStats))
    \o FlagChecks(extra)

\* ProcessUnlocks with newUnlocks.unshift in place of newUnlocks.push
\* (line 211): the batch comes out in reverse evaluation order.
RECURSIVE ProcessUnlocksUnshift(_, _, _, _)
ProcessUnlocksUnshift(checks, i, acc, t) ==
    IF i > Len(checks) THEN acc
    ELSE LET id == checks[i]
         IN  IF Found(acc.list, id) /\ ~IsUnlocked(acc.list, id)
             THEN ProcessUnlocksUnshift(checks, i + 1,
                      [list  |-> Unlock(acc.list, id, t),
                       batch |-> <<id>> \o acc.batch], t)
             ELSE ProcessUnlocksUnshift(checks, i + 1, acc, t)

\* Lines 203-214: the forEach over checkAchievements.  acc.list is
\* updatedAchievements and acc.batch is newUnlocks.
RECURSIVE ProcessUnlocks(_, _, _, _)
ProcessUnlocks(checks, i, acc, t) ==
    IF i > Len(checks) THEN acc
    ELSE LET id == checks[i]
         IN  IF Found(acc.list, id) /\ ~IsUnlocked(acc.list, id)
             THEN ProcessUnlocks(checks, i + 1,
                      [list  |-> Unlock(acc.list, id, t),
                       batch |-> Append(acc.batch, id)], t)
             ELSE ProcessUnlocks(checks, i + 1, acc, t)

\* JSON.stringify({ achievements, stats })
Stored(list, s) == [kind |-> "json", achievements |-> list, stats |-> s]

\* localStorage.getItem(STORAGE_KEY) === null
NoItem == [kind |-> "null", achievements |-> EmptyList, stats |-> ZeroStats]

\* Lines 103-106: the saved list merged into the catalogue: every catalogue
\* id gets an entry, with the saved unlocked and unlockedAt when saved.
Merge(saved) == [full |-> TRUE, at |-> saved.at]

\* localStorage holds a text under STORAGE_KEY that JSON.parse rejects
CorruptItem ==
    [kind |-> "corrupt", achievements |-> EmptyList, stats |-> ZeroStats]

NoRet == [batch |-> <<>>, ok |-> FALSE]

\* A record a previous session left: nine uno games, the last two won.
NineGames ==
    Stored(Unlock(Unlock(Unlock(AllLocked, "first_game", 0), "first_win", 0),
                  "uno_first_win", 0),
           [ZeroStats EXCEPT !.totalGames = 9, !.totalWins = 2,
                             !.currentWinStreak = 2, !.bestWinStreak = 2,
                             !.unoWins = 2])

AchInit ==
    /\ achievements = EmptyList
    /\ stats = ZeroStats
    /\ recentUnlock = NoUnlock
    /\ rAchievements = EmptyList
    /\ rStats = ZeroStats
    /\ achStorage \in {NoItem, NineGames, CorruptItem}
    /\ loadPending = TRUE
    /\ calls = 0
    /\ lastCall = "none"
    /\ lastRet = NoRet
    /\ trackAwarded = {}
    /\ checkAwarded = {}

\* Date.now(): the calls of a run happen at increasing times, the k-th
\* call at time k (time 0 is the past of the run).
Now == calls + 1

\* The component is mounted: no effect of it has thrown (an exception
\* thrown by an effect unmounts the tree, and no callback of the hook is
\* called afterwards).
Mounted == lastCall # "threw"

\* The mount effect (lines 97-113).  JSON.parse (line 100) is not inside a
\* try: on a text that is not JSON the effect throws before any setState.
LoadEffect ==
    /\ loadPending
    /\ loadPending' = FALSE
    /\ IF achStorage.kind = "corrupt"
       THEN /\ lastCall' = "threw"
            /\ UNCHANGED <<achievements, stats>>
       ELSE IF achStorage.kind # "null"
       THEN /\ achievements' = Merge(achStorage.achievements)
            /\ stats' = achStorage.stats
            /\ UNCHANGED lastCall
       ELSE /\ achievements' = AllLocked
            /\ UNCHANGED <<stats, lastCall>>
    /\ UNCHANGED clientVars
    /\ UNCHANGED boardVars
    /\ UNCHANGED tabVars
    /\ UNCHANGED sessionAddress
    /\ UNCHANGED gameVars
    /\ UNCHANGED <<recentUnlock, rAchievements, rStats, achStorage, calls,
                   lastRet, trackAwarded, checkAwarded>>

\* React renders the component again: the callbacks are rebuilt
\* (useCallback deps [achievements, stats]) over the current state.
Render ==
    /\ Mounted
    /\ ~loadPending
    /\ <<rAchievements, rStats>> # <<achievements, stats>>
    /\ rAchievements' = achievements
    /\ rStats' = stats
    /\ UNCHANGED clientVars
    /\ UNCHANGED boardVars
    /\ UNCHANGED tabVars
    /\ UNCHANGED sessionAddress
    /\ UNCHANGED gameVars
    /\ UNCHANGED <<achievements, stats, recentUnlock, achStorage, loadPending,
                   calls, lastCall, lastRet, trackAwarded, checkAwarded>>

\* trackGamePlayed(game, won, extraData), lines 137-223.
TrackGamePlayed(game, won, extra) ==
    LET newStats == NewStats(rStats, game, won, extra)
        res == ProcessUnlocks(TrueChecks(newStats, extra), 1,
                              [list |-> rAchievements, batch |-> <<>>], Now)
    IN  /\ Mounted
        /\ calls < MaxCalls
        /\ calls' = calls + 1
        /\ stats' = newStats
        /\ IF Len(res.batch) > 0
           THEN /\ achievements' = res.list
                /\ recentUnlock' = [id |-> res.batch[Len(res.batch)],
                                    unlockedAt |-> Now]
           ELSE UNCHANGED <<achievements, recentUnlock>>
        /\ achStorage' = Stored(res.list, newStats)
        /\ lastCall' = "track"
        /\ lastRet' = [batch |-> res.batch, ok |-> FALSE]
        /\ trackAwarded' = trackAwarded
                               \cup {res.batch[i] : i \in DOMAIN res.batch}
        /\ UNCHANGED clientVars
        /\ UNCHANGED boardVars
        /\ UNCHANGED tabVars
        /\ UNCHANGED sessionAddress
        /\ UNCHANGED <<rAchievements, rStats, loadPending, checkAwarded>>

\* The ids checkAndUnlock is called with in the model.
CheckIds == {"sl_comeback", "first_win"}

\* checkAndUnlock(achievementId), lines 121-134.
CheckAndUnlock(id) ==
    /\ Mounted
    /\ calls < MaxCalls
    /\ calls' = calls + 1
    /\ lastCall' = "check"
    /\ IF ~Found(rAchievements, id) \/ IsUnlocked(rAchievements, id)
       THEN /\ lastRet' = [batch |-> <<>>, ok |-> FALSE]
            /\ UNCHANGED <<achievements, recentUnlock, achStorage, checkAwarded>>
       ELSE LET updated == Unlock(rAchievements, id, Now)
            IN  /\ achievements' = updated
                /\ recentUnlock' = [id |-> id, unlockedAt |-> Now]
                /\ achStorage' = Stored(updated, rStats)
                /\ lastRet' = [batch |-> <<>>, ok |-> TRUE]
                /\ checkAwarded' = checkAwarded \cup {id}
    /\ UNCHANGED clientVars
    /\ UNCHANGED boardVars
    /\ UNCHANGED tabVars
    /\ UNCHANGED sessionAddress
    /\ UNCHANGED gameVars
    /\ UNCHANGED <<stats, rAchievements, rStats, loadPending, trackAwarded>>

\* clearRecentUnlock(), lines 225-227.
ClearRecentUnlock ==
    /\ Mounted
    /\ recentUnlock # NoUnlock
    /\ recentUnlock' = NoUnlock
    /\ UNCHANGED clientVars
    /\ UNCHANGED boardVars
    /\ UNCHANGED tabVars
    /\ UNCHANGED sessionAddress
    /\ UNCHANGED gameVars
    /\ UNCHANGED <<achievements, stats, rAchievements, rStats, achStorage,
                   loadPending, calls, lastCall, lastRet, trackAwarded,
                   checkAwarded>>

\* A new session: the page is loaded again and the hook is mounted afresh
\* (lines 83-94); localStorage is what the last session left.
Reload ==
    /\ calls < MaxCalls
    /\ lastCall # "reload"
    /\ achievements' = EmptyList
    /\ stats' = ZeroStats
    /\ recentUnlock' = NoUnlock
    /\ rAchievements' = EmptyList
    /\ rStats' = ZeroStats
    /\ loadPending' = TRUE
    /\ lastCall' = "reload"
    /\ lastRet' = NoRet
    /\ UNCHANGED clientVars
    /\ UNCHANGED boardVars
    /\ UNCHANGED tabVars
    /\ UNCHANGED sessionAddress
    /\ UNCHANGED gameVars
    /\ UNCHANGED <<achStorage, calls, trackAwarded, checkAwarded>>

AchNext ==
    \/ LoadEffect
    \/ Render
    \/ \E in \in TrackInputs :
           TrackGamePlayed(in[1], in[2], in[3]) /\ UNCHANGED gameVars
    \/ \E id \in CheckIds : CheckAndUnlock(id)
    \/ ClearRecentUnlock
    \/ Reload

(***************************************************************************)
(* The local store of useLineraClient.ts                                   *)
(***************************************************************************)

\* Bounds of the client hook model.
MaxClientCalls == 3
MaxConnects == 1

\* `0x${Math.random()...}...`: the mock addresses connect() can draw
Addrs == {"0xa", "0xb"}

\* wallet === null, localStorage.getItem('linera-wallet') === null
NoWallet == "null"

\* '{}': a table without entries
NoEntries == [a \in {} |-> 0]

\* table[address] || dflt
Get(table, a, dflt) == IF a \in DOMAIN table THEN table[a] ELSE dflt

\* table[address] = v
Put(table, a, v) == (a :> v) @@ table

\* { wins: 0, losses: 0 }; snakeladders adds bestPosition: 4
NoStats == [wins |-> 0, losses |-> 0]
NoSLStats == [wins |-> 0, losses |-> 0, bestPosition |-> 4]

\* localStorage with none of the hook's keys
EmptyStore ==
    [wallet |-> NoWallet, scores |-> NoEntries, ttt |-> NoEntries,
     sl |-> NoEntries, uno |-> NoEntries, games |-> NoEntries,
     profiles |-> NoEntries, rooms |-> <<>>, corrupt |-> {}]

\* localStorage as earlier sessions of player 0xa left it: still connected,
\* snake high score 120 in two games, three wins and one loss
EarlierSessions ==
    [wallet |-> "0xa",
     scores |-> Put(NoEntries, "0xa", 120),
     ttt |-> Put(NoEntries, "0xa", [wins |-> 2, losses |-> 1]),
     sl |-> NoEntries,
     uno |-> Put(NoEntries, "0xa", [wins |-> 1, losses |-> 0]),
     games |-> Put(NoEntries, "0xa", 2),
     profiles |-> NoEntries, rooms |-> <<>>, corrupt |-> {}]

\* EarlierSessions with one key whose text JSON.parse rejects (the table
\* field of such a key is not read)
CorruptStores ==
    {[EarlierSessions EXCEPT !.corrupt = {k}] :
        k \in {"scores", "games", "ttt", "profiles"}}

\* submitSnakeScore storing the score without comparing it
SubmitSnakeScoreOverwrite(store, a, score) ==
    [store EXCEPT !.scores = Put(@, a, score),
                  !.games = Put(@, a, Get(@, a, 0) + 1)]

\* The demo-mode body of submitSnakeScore
SubmitSnakeScoreLocal(store, a, score) ==
    LET currentHigh == Get(store.scores, a, 0)
    IN  [store EXCEPT
            !.scores = IF score > currentHigh THEN Put(@, a, score) ELSE @,
            !.games = Put(@, a, Get(@, a, 0) + 1)]

\* A result counted from a fresh entry instead of the stored one
CountResultFresh(st, won) ==
    IF won THEN [st EXCEPT !.wins = 1, !.losses = 0]
    ELSE [st EXCEPT !.wins = 0, !.losses = 1]

\* if (won) stats.wins++; else stats.losses++;
CountResult(st, won) ==
    IF won THEN [st EXCEPT !.wins = @ + 1] ELSE [st EXCEPT !.losses = @ + 1]

\* The demo-mode body of submitTicTacToeResult
SubmitTicTacToeResultLocal(store, a, won) ==
    [store EXCEPT !.ttt = Put(@, a, CountResult(Get(@, a, NoStats), won))]

\* The demo-mode body of submitSnakeLaddersResult
SubmitSnakeLaddersResultLocal(store, a, won, position) ==
    LET st == CountResult(Get(store.sl, a, NoSLStats), won)
    IN  [store EXCEPT !.sl =
            Put(@, a, IF position < st.bestPosition
                      THEN [st EXCEPT !.bestPosition = position] ELSE st)]

\* The demo-mode body of submitUnoResult
SubmitUnoResultLocal(store, a, won) ==
    [store EXCEPT !.uno = Put(@, a, CountResult(Get(@, a, NoStats), won))]

\* The demo-mode body of updateProfile
UpdateProfileLocal(store, a, username, avatarId) ==
    [store EXCEPT !.profiles =
        Put(@, a, [username |-> username, avatarId |-> avatarId])]

\* Math.random().toString(36).slice(2, 6).toUpperCase(): the codes drawn
RoomCodes == {"K3XQ", "7ZPA"}

\* The game types rooms are created for
RoomGames == {"snake", "uno"}

\* gameType.slice(0, 3).toUpperCase()
RoomPrefix(gameType) ==
    CASE gameType = "snake" -> "SNA"
      [] gameType = "snakeladders" -> "SNA"
      [] gameType = "tictactoe" -> "TIC"
      [] gameType = "uno" -> "UNO"

\* `${prefix}-${code}`
RoomId(gameType, code) == RoomPrefix(gameType) \o "-" \o code

\* createRoom returned null
NoRoomId == "null"

\* wallet.address.slice(0, 10): the first ten of the address's characters
AddressPrefix(a) == a \o "[0,10)"

\* The demo-mode body of createRoom: the room pushed onto 'linera-rooms'
CreateRoomLocal(store, a, gameType, maxPlayers, fee, code, now) ==
    LET profile == Get(store.profiles, a, [username |-> "", avatarId |-> 0])
    IN  [store EXCEPT !.rooms =
            Append(@, [id |-> RoomId(gameType, code), game |-> gameType,
                       players |-> 1, maxPlayers |-> maxPlayers, fee |-> fee,
                       host |-> IF profile.username # "" THEN profile.username
                                ELSE AddressPrefix(a),
                       status |-> "waiting", createdAt |-> now])]

\* storedRooms.findIndex(r => r.id === roomId), counted from 1; 0 for -1
RoomIndex(rooms, roomId) ==
    IF \E i \in DOMAIN rooms : rooms[i].id = roomId
    THEN CHOOSE i \in DOMAIN rooms :
             /\ rooms[i].id = roomId
             /\ \A j \in 1..(i - 1) : rooms[j].id # roomId
    ELSE 0

\* joinRoom returns true: the room is found and has a free place
JoinRoomAccepted(store, roomId) ==
    LET i == RoomIndex(store.rooms, roomId)
    IN  i # 0 /\ store.rooms[i].players < store.rooms[i].maxPlayers

\* The demo-mode body of joinRoom
JoinRoomLocal(store, roomId) ==
    LET i == RoomIndex(store.rooms, roomId)
    IN  IF ~JoinRoomAccepted(store, roomId) THEN store
        ELSE [store EXCEPT !.rooms[i] =
                 [@ EXCEPT !.players = @ + 1,
                           !.status = IF store.rooms[i].players + 1
                                           >= store.rooms[i].maxPlayers
                                      THEN "playing" ELSE @]]

\* A call in flight: the operation, the wallet.address its closure holds,
\* and its arguments (won; n is the score, position or avatar id; name)
Call(op, a, won, n, name) ==
    [op |-> op, addr |-> a, won |-> won, n |-> n, name |-> name]

\* What a call does to the store when its timer fires
ApplyLocal(store, c) ==
    CASE c.op = "snake" -> SubmitSnakeScoreLocal(store, c.addr, c.n)
      [] c.op = "tictactoe" -> SubmitTicTacToeResultLocal(store, c.addr, c.won)
      [] c.op = "snakeladders" ->
             SubmitSnakeLaddersResultLocal(store, c.addr, c.won, c.n)
      [] c.op = "uno" -> SubmitUnoResultLocal(store, c.addr, c.won)
      [] c.op = "profile" -> UpdateProfileLocal(store, c.addr, c.name, c.n)
      [] c.op = "joinRoom" -> JoinRoomLocal(store, c.roomId)

\* A room call in flight: createRoom(gameType, maxPlayers, fee) or
\* joinRoom(roomId)
RoomCall(op, a, gameType, maxPlayers, fee, roomId) ==
    [op |-> op, addr |-> a, won |-> FALSE, n |-> maxPlayers,
     name |-> gameType, fee |-> fee, roomId |-> roomId]

\* The keys an operation hands to JSON.parse, up to its first setItem
ParsedFirst(op) ==
    CASE op = "snake" -> {"scores"}
      [] op = "tictactoe" -> {"ttt"}
      [] op = "snakeladders" -> {"sl"}
      [] op = "uno" -> {"uno"}
      [] op = "profile" -> {"profiles"}
      [] op = "createRoom" -> {"rooms", "profiles"}
      [] op = "joinRoom" -> {"rooms"}

\* The body of an operation after its timer, inside try/catch: the store it
\* leaves, the value it returns (ok; room is the id createRoom returns).
\* JSON.parse of a key whose text is not JSON throws, and the catch returns
\* false or null; submitSnakeScore has by then written the score table
\* when only the games-played table is unreadable.
RunLocal(store, c, code, now) ==
    IF ParsedFirst(c.op) \cap store.corrupt # {}
    THEN [store |-> store, ok |-> FALSE, room |-> NoRoomId]
    ELSE IF c.op = "snake" /\ "games" \in store.corrupt
    THEN [store |-> [store EXCEPT !.scores =
                        SubmitSnakeScoreLocal(store, c.addr, c.n).scores],
          ok |-> FALSE, room |-> NoRoomId]
    ELSE IF c.op = "createRoom"
    THEN [store |-> CreateRoomLocal(store, c.addr, c.name, c.n, c.fee,
                                    code, now),
          ok |-> TRUE, room |-> RoomId(c.name, code)]
    ELSE IF c.op = "joinRoom"
    THEN [store |-> ApplyLocal(store, c),
          ok |-> JoinRoomAccepted(store, c.roomId), room |-> NoRoomId]
    ELSE [store |-> ApplyLocal(store, c), ok |-> TRUE, room |-> NoRoomId]

\* getUserProfile returned null
NoProfile ==
    [isNull |-> TRUE, username |-> "", avatarId |-> 0, level |-> 0, xp |-> 0,
     snakeHighScore |-> 0, snakeGames |-> 0,
     snakeLaddersWins |-> 0, snakeLaddersLosses |-> 0,
     tictactoeWins |-> 0, tictactoeLosses |-> 0,
     unoWins |-> 0, unoLosses |-> 0]

\* getUserProfile of the earlier hook (lines 280-310)
UserProfileEarlier(store, a) ==
    LET profile == Get(store.profiles, a, [username |-> "", avatarId |-> 0])
        snakeHighScore == Get(store.scores, a, 0)
        tttStats == Get(store.ttt, a, NoStats)
    IN  [NoProfile EXCEPT
            !.isNull = FALSE,
            !.username = IF profile.username # "" THEN profile.username
                         ELSE "Anonymous Player",
            !.avatarId = profile.avatarId,
            !.level = ((snakeHighScore \div 100 + tttStats.wins * 5) \div 10) + 1,
            !.xp = snakeHighScore + tttStats.wins * 50 + tttStats.losses * 10,
            !.snakeHighScore = snakeHighScore,
            !.snakeGames = (snakeHighScore \div 50) + 1,
            !.tictactoeWins = tttStats.wins,
            !.tictactoeLosses = tttStats.losses]

\* The demo-mode body of getUserProfile for a target address
UserProfileLocal(store, a) ==
    LET profile == Get(store.profiles, a, [username |-> "", avatarId |-> 0])
        snakeHighScore == Get(store.scores, a, 0)
        tttStats == Get(store.ttt, a, NoStats)
        slStats == Get(store.sl, a, NoStats)
        unoStats == Get(store.uno, a, NoStats)
        snakeGames == Get(store.games, a, 0)
        totalWins == tttStats.wins + slStats.wins + unoStats.wins
        totalXP == snakeHighScore + totalWins * 50
    IN  [isNull |-> FALSE,
         username |-> IF profile.username # "" THEN profile.username
                      ELSE "Anonymous Player",
         avatarId |-> profile.avatarId,
         level |-> (totalXP \div 500) + 1,
         xp |-> totalXP % 500,
         snakeHighScore |-> snakeHighScore,
         snakeGames |-> snakeGames,
         snakeLaddersWins |-> slStats.wins,
         snakeLaddersLosses |-> slStats.losses,
         tictactoeWins |-> tttStats.wins,
         tictactoeLosses |-> tttStats.losses,
         unoWins |-> unoStats.wins,
         unoLosses |-> unoStats.losses]

(***************************************************************************)
(* lib/linera/client.ts: the SDK module state and the client singleton     *)
(***************************************************************************)

\* let lineraModule = null; let isInitialized = false;
\* let initializationAttempted = false;
FreshModule ==
    [isInitialized |-> FALSE, initializationAttempted |-> FALSE,
     lineraModule |-> FALSE]

\* new LineraGameClient(): client, wallet null, chainId ''
FreshClient == [client |-> FALSE, wallet |-> FALSE, chainId |-> ""]

\* The session's first address, once setWallet was given one
Established(first, w) == IF first = NoWallet THEN w ELSE first

\* initializeLinera() without the initializationAttempted guard of line 38
InitializeLineraRetry(m, configured) ==
    IF m.isInitialized THEN [m |-> m, ret |-> TRUE, tried |-> FALSE]
    ELSE [m |-> [m EXCEPT !.initializationAttempted = TRUE],
          ret |-> FALSE, tried |-> TRUE]

\* initializeLinera() with the dynamic import of lines 60-64 enabled
InitializeLineraImport(m, configured) ==
    IF m.isInitialized THEN [m |-> m, ret |-> TRUE, tried |-> FALSE]
    ELSE IF m.initializationAttempted
         THEN [m |-> m, ret |-> FALSE, tried |-> FALSE]
    ELSE LET attempted == [m EXCEPT !.initializationAttempted = TRUE]
         IN  IF ~configured
             THEN [m |-> attempted, ret |-> FALSE, tried |-> TRUE]
             ELSE [m |-> [attempted EXCEPT !.isInitialized = TRUE,
                                           !.lineraModule = TRUE],
                   ret |-> TRUE, tried |-> TRUE]

\* initializeLinera(): the module state it leaves, what it returns, and
\* whether this call attempted the initialization (went past line 38).
\* The dynamic import of the SDK is commented out: both paths return false.
InitializeLinera(m, configured) ==
    IF m.isInitialized THEN [m |-> m, ret |-> TRUE, tried |-> FALSE]
    ELSE IF m.initializationAttempted
         THEN [m |-> m, ret |-> FALSE, tried |-> FALSE]
    ELSE LET attempted == [m EXCEPT !.initializationAttempted = TRUE]
         IN  IF ~configured
             THEN [m |-> attempted, ret |-> FALSE, tried |-> TRUE]
             ELSE [m |-> attempted, ret |-> FALSE, tried |-> TRUE]

\* isLineraAvailable()
IsLineraAvailable(m) == m.isInitialized /\ m.lineraModule

\* get isConnected(): Boolean(this.client && this.wallet)
LcIsConnected(l) == l.client /\ l.wallet

\* The chain id a remote connection yields
RemoteChain == "chain"

(***************************************************************************)
(* useLineraClient: state, mount effect, connect, disconnect               *)
(***************************************************************************)

\* useState(false), useState(false), useState(null), useState(true)
FreshHook ==
    [isConnected |-> FALSE, isConnecting |-> FALSE, wallet |-> NoWallet,
     usingDemoMode |-> TRUE]

\* What the callbacks of a render capture: isConnected, wallet, usingDemoMode
Captured(h) ==
    [isConnected |-> h.isConnected, wallet |-> h.wallet,
     usingDemoMode |-> h.usingDemoMode]

\* The wallet addresses a session can hold
Players == Addrs \cup {RemoteChain}

\* No call has returned yet
NoDone ==
    [op |-> "none", addr |-> NoWallet, ok |-> FALSE, served |-> "none",
     profile |-> NoProfile, room |-> NoRoomId]

ClientInit ==
    /\ appConfigured \in BOOLEAN
    /\ modState = FreshModule
    /\ lc = FreshClient
    /\ hook = FreshHook
    /\ rHook = Captured(FreshHook)
    /\ initAttempted = FALSE
    /\ ls \in {EmptyStore, EarlierSessions} \cup CorruptStores
    /\ pending = <<>>
    /\ connectTimers = 0
    /\ cCalls = 0
    /\ connects = 0
    /\ initAttempts = 0
    /\ lastInitRet = FALSE
    /\ servedRemote = FALSE
    /\ snakeMax = [a \in Players |-> Get(ls.scores, a, 0)]
    /\ lastDone = NoDone

\* `if (isLineraConfigured()) { await initializeLinera(); ... }` as the
\* mount effect and connect() run it: the module state, the history of
\* attempts and the last result
TryInitialize ==
    LET r == InitializeLinera(modState, appConfigured)
    IN  IF appConfigured
        THEN /\ modState' = r.m
             /\ initAttempts' = initAttempts + (IF r.tried THEN 1 ELSE 0)
             /\ lastInitRet' = r.ret
        ELSE UNCHANGED <<modState, initAttempts, lastInitRet>>

\* The mount effect: checkConnection()
CheckConnection ==
    /\ ~initAttempted
    /\ initAttempted' = TRUE
    /\ TryInitialize
    /\ IF appConfigured /\ IsLineraAvailable(modState') /\ LcIsConnected(lc)
       THEN hook' = [hook EXCEPT !.wallet = lc.chainId,
                                 !.isConnected = TRUE,
                                 !.usingDemoMode = FALSE]
       ELSE IF ls.wallet # NoWallet
            THEN hook' = [hook EXCEPT !.wallet = ls.wallet,
                                      !.isConnected = TRUE,
                                      !.usingDemoMode = TRUE]
            ELSE UNCHANGED hook
    /\ UNCHANGED <<appConfigured, lc, rHook, ls, pending, connectTimers,
                   cCalls, connects, servedRemote, snakeMax, lastDone>>
    /\ UNCHANGED achVars
    /\ UNCHANGED boardVars
    /\ UNCHANGED tabVars
    /\ sessionAddress' = Established(sessionAddress, hook'.wallet)
    /\ UNCHANGED gameVars

\* A render of the component: the callbacks capture the current state
ClientRender ==
    /\ rHook # Captured(hook)
    /\ rHook' = Captured(hook)
    /\ UNCHANGED <<appConfigured, modState, lc, hook, initAttempted, ls,
                   pending, connectTimers, cCalls, connects, initAttempts,
                   lastInitRet, servedRemote, snakeMax, lastDone>>
    /\ UNCHANGED achVars
    /\ UNCHANGED boardVars
    /\ UNCHANGED tabVars
    /\ UNCHANGED sessionAddress
    /\ UNCHANGED gameVars

\* connect() up to its first timer: the remote backend is tried when
\* configured and available, otherwise the 800 ms demo timer is started
Connect ==
    /\ connects < MaxConnects
    /\ connects' = connects + 1
    /\ TryInitialize
    /\ IF appConfigured /\ IsLineraAvailable(modState')
       THEN \* lineraClient.connect() succeeded
            /\ lc' = [client |-> TRUE, wallet |-> TRUE, chainId |-> RemoteChain]
            /\ hook' = [hook EXCEPT !.wallet = RemoteChain,
                                    !.isConnected = TRUE,
                                    !.usingDemoMode = FALSE,
                                    !.isConnecting = FALSE]
            /\ servedRemote' = TRUE
            /\ UNCHANGED connectTimers
       ELSE /\ hook' = [hook EXCEPT !.isConnecting = TRUE]
            /\ connectTimers' = connectTimers + 1
            /\ UNCHANGED <<lc, servedRemote>>
    /\ UNCHANGED <<appConfigured, rHook, initAttempted, ls, pending, cCalls,
                   snakeMax, lastDone>>
    /\ UNCHANGED achVars
    /\ UNCHANGED boardVars
    /\ UNCHANGED tabVars
    /\ sessionAddress' = Established(sessionAddress, hook'.wallet)
    /\ UNCHANGED gameVars

\* connect() after its 800 ms timer: a new mock wallet is drawn, set and
\* saved
ConnectDemo(a) ==
    /\ connectTimers > 0
    /\ connectTimers' = connectTimers - 1
    /\ hook' = [hook EXCEPT !.wallet = a, !.isConnected = TRUE,
                            !.usingDemoMode = TRUE, !.isConnecting = FALSE]
    /\ ls' = [ls EXCEPT !.wallet = a]
    /\ UNCHANGED <<appConfigured, modState, lc, rHook, initAttempted, pending,
                   cCalls, connects, initAttempts, lastInitRet, servedRemote,
                   snakeMax, lastDone>>
    /\ UNCHANGED achVars
    /\ UNCHANGED boardVars
    /\ UNCHANGED tabVars
    /\ sessionAddress' = Established(sessionAddress, hook'.wallet)
    /\ UNCHANGED gameVars

\* disconnect()
Disconnect ==
    /\ hook.wallet # NoWallet \/ ls.wallet # NoWallet
    /\ lc' = IF ~rHook.usingDemoMode /\ LcIsConnected(lc)
             THEN FreshClient ELSE lc
    /\ hook' = [hook EXCEPT !.wallet = NoWallet, !.isConnected = FALSE]
    /\ ls' = [ls EXCEPT !.wallet = NoWallet]
    /\ UNCHANGED <<appConfigured, modState, rHook, initAttempted, pending,
                   connectTimers, cCalls, connects, initAttempts, lastInitRet,
                   servedRemote, snakeMax, lastDone>>
    /\ UNCHANGED achVars
    /\ UNCHANGED boardVars
    /\ UNCHANGED tabVars
    /\ UNCHANGED sessionAddress
    /\ UNCHANGED gameVars

(***************************************************************************)
(* useLineraClient: submissions and queries                                *)
(***************************************************************************)

\* The arguments the operations are called with
SnakeScores == {10, 25, 400}
LadderResults == {<<TRUE, 1>>, <<FALSE, 3>>}
ProfileInputs == {<<"neo", 3>>}
ProfileTargets == {"", "0xa"}
RoomSizes == {2}
RoomFees == {5}
RoomIds == {RoomId("snake", "K3XQ"), RoomId("uno", "7ZPA")}

\* Submit with `return true` in place of the `return false` of the guard
SubmitGuardReturnsTrue(op, won, n, name) ==
    /\ cCalls < MaxClientCalls
    /\ cCalls' = cCalls + 1
    /\ IF ~rHook.isConnected \/ rHook.wallet = NoWallet
       THEN /\ lastDone' = [NoDone EXCEPT !.op = op, !.ok = TRUE]
            /\ UNCHANGED <<pending, servedRemote>>
       ELSE IF ~rHook.usingDemoMode /\ LcIsConnected(lc)
            THEN /\ \E ok \in BOOLEAN :
                      lastDone' = [NoDone EXCEPT !.op = op,
                                                 !.addr = rHook.wallet,
                                                 !.ok = ok,
                                                 !.served = "remote"]
                 /\ servedRemote' = TRUE
                 /\ UNCHANGED pending
            ELSE /\ pending' = Append(pending,
                                      Call(op, rHook.wallet, won, n, name))
                 /\ UNCHANGED <<lastDone, servedRemote>>
    /\ UNCHANGED <<appConfigured, modState, lc, hook, rHook, initAttempted,
                   ls, connectTimers, connects, initAttempts, lastInitRet,
                   snakeMax>>
    /\ UNCHANGED achVars
    /\ UNCHANGED boardVars
    /\ UNCHANGED tabVars
    /\ UNCHANGED sessionAddress
    /\ UNCHANGED gameVars

\* A submission up to its dispatch: the guard on the captured connection
\* state, the remote branch, or the start of the 200 ms demo timer
Submit(op, won, n, name) ==
    /\ cCalls < MaxClientCalls
    /\ cCalls' = cCalls + 1
    /\ IF ~rHook.isConnected \/ rHook.wallet = NoWallet
       THEN /\ lastDone' = [NoDone EXCEPT !.op = op]
            /\ UNCHANGED <<pending, servedRemote>>
       ELSE IF ~rHook.usingDemoMode /\ LcIsConnected(lc)
            THEN /\ \E ok \in BOOLEAN :
                      lastDone' = [NoDone EXCEPT !.op = op,
                                                 !.addr = rHook.wallet,
                                                 !.ok = ok,
                                                 !.served = "remote"]
                 /\ servedRemote' = TRUE
                 /\ UNCHANGED pending
            ELSE /\ pending' = Append(pending,
                                      Call(op, rHook.wallet, won, n, name))
                 /\ UNCHANGED <<lastDone, servedRemote>>
    /\ UNCHANGED <<appConfigured, modState, lc, hook, rHook, initAttempted,
                   ls, connectTimers, connects, initAttempts, lastInitRet,
                   snakeMax>>
    /\ UNCHANGED achVars
    /\ UNCHANGED boardVars
    /\ UNCHANGED tabVars
    /\ UNCHANGED sessionAddress
    /\ UNCHANGED gameVars

SubmitSnakeScore(score) == Submit("snake", FALSE, score, "")

SubmitTicTacToeResult(won) == Submit("tictactoe", won, 0, "")

SubmitSnakeLaddersResult(won, position) ==
    Submit("snakeladders", won, position, "")

SubmitUnoResult(won) == Submit("uno", won, 0, "")

UpdateProfile(username, avatarId) == Submit("profile", FALSE, avatarId, username)

\* A room operation up to its dispatch: the same guard and branches as a
\* submission
RoomOp(op, gameType, maxPlayers, fee, roomId) ==
    /\ cCalls < MaxClientCalls
    /\ cCalls' = cCalls + 1
    /\ IF ~rHook.isConnected \/ rHook.wallet = NoWallet
       THEN /\ lastDone' = [NoDone EXCEPT !.op = op]
            /\ UNCHANGED <<pending, servedRemote>>
       ELSE IF ~rHook.usingDemoMode /\ LcIsConnected(lc)
            THEN /\ \E ok \in BOOLEAN :
                      lastDone' = [NoDone EXCEPT
                                      !.op = op, !.addr = rHook.wallet,
                                      !.ok = ok, !.served = "remote",
                                      !.room = IF ok /\ op = "createRoom"
                                               THEN "remote" ELSE NoRoomId]
                 /\ servedRemote' = TRUE
                 /\ UNCHANGED pending
            ELSE /\ pending' = Append(pending,
                                      RoomCall(op, rHook.wallet, gameType,
                                               maxPlayers, fee, roomId))
                 /\ UNCHANGED <<lastDone, servedRemote>>
    /\ UNCHANGED <<appConfigured, modState, lc, hook, rHook, initAttempted,
                   ls, connectTimers, connects, initAttempts, lastInitRet,
                   snakeMax>>
    /\ UNCHANGED achVars
    /\ UNCHANGED boardVars
    /\ UNCHANGED tabVars
    /\ UNCHANGED sessionAddress
    /\ UNCHANGED gameVars

CreateRoom(gameType, maxPlayers, fee) ==
    RoomOp("createRoom", gameType, maxPlayers, fee, NoRoomId)

JoinRoom(roomId) == RoomOp("joinRoom", "", 0, 0, roomId)

\* Date.now() of the client hook: the calls made so far
ClientNow == cCalls

\* The 200 ms timer of the oldest waiting call fires: the call reads the
\* table, changes its entry, writes it back and returns
TimerFires ==
    /\ pending # <<>>
    /\ LET c == Head(pending)
       IN  \E code \in IF c.op = "createRoom" THEN RoomCodes ELSE {NoRoomId} :
             LET r == RunLocal(ls, c, code, ClientNow)
             IN  /\ ls' = r.store
                 /\ snakeMax' = IF c.op = "snake" /\ c.n > snakeMax[c.addr]
                                THEN [snakeMax EXCEPT ![c.addr] = c.n]
                                ELSE snakeMax
                 /\ lastDone' = [NoDone EXCEPT
                                    !.op = c.op, !.addr = c.addr, !.ok = r.ok,
                                    !.served = "local", !.room = r.room]
    /\ pending' = Tail(pending)
    /\ UNCHANGED <<appConfigured, modState, lc, hook, rHook, initAttempted,
                   connectTimers, cCalls, connects, initAttempts, lastInitRet,
                   servedRemote>>
    /\ UNCHANGED achVars
    /\ UNCHANGED boardVars
    /\ UNCHANGED tabVars
    /\ UNCHANGED sessionAddress
    /\ UNCHANGED gameVars

\* The keys getUserProfile hands to JSON.parse inside its try
ProfileKeys == {"profiles", "scores", "ttt", "sl", "uno", "games"}

\* getUserProfile(address); "" stands for a call without an address
GetUserProfile(address) ==
    /\ cCalls < MaxClientCalls
    /\ cCalls' = cCalls + 1
    /\ LET targetAddress == IF address # "" THEN address ELSE rHook.wallet
       IN  IF targetAddress = NoWallet
           THEN /\ lastDone' = [NoDone EXCEPT !.op = "getUserProfile"]
                /\ UNCHANGED servedRemote
           ELSE IF ~rHook.usingDemoMode /\ LcIsConnected(lc)
                THEN /\ lastDone' = [NoDone EXCEPT !.op = "getUserProfile",
                                                   !.addr = targetAddress,
                                                   !.served = "remote"]
                     /\ servedRemote' = TRUE
                ELSE /\ lastDone' =
                            [op |-> "getUserProfile", addr |-> targetAddress,
                             ok |-> TRUE, served |-> "local",
                             profile |-> IF ProfileKeys \cap ls.corrupt # {}
                                         THEN NoProfile
                                         ELSE UserProfileLocal(ls,
                                                               targetAddress),
                             room |-> NoRoomId]
                     /\ UNCHANGED servedRemote
    /\ UNCHANGED <<appConfigured, modState, lc, hook, rHook, initAttempted,
                   ls, pending, connectTimers, connects, initAttempts,
                   lastInitRet, snakeMax>>
    /\ UNCHANGED achVars
    /\ UNCHANGED boardVars
    /\ UNCHANGED tabVars
    /\ UNCHANGED sessionAddress
    /\ UNCHANGED gameVars

\* The page is reloaded: a new session with fresh module and hook state;
\* localStorage stays, the timers of the old page are gone
ClientReload ==
    /\ initAttempted
    /\ modState' = FreshModule
    /\ lc' = FreshClient
    /\ hook' = FreshHook
    /\ rHook' = Captured(FreshHook)
    /\ initAttempted' = FALSE
    /\ pending' = <<>>
    /\ connectTimers' = 0
    /\ initAttempts' = 0
    /\ lastInitRet' = FALSE
    /\ servedRemote' = FALSE
    /\ UNCHANGED <<appConfigured, ls, cCalls, connects, snakeMax, lastDone>>
    /\ UNCHANGED achVars
    /\ UNCHANGED boardVars
    /\ UNCHANGED tabVars
    /\ sessionAddress' = NoWallet
    /\ UNCHANGED gameVars

ClientNext ==
    \/ CheckConnection
    \/ ClientRender
    \/ Connect
    \/ \E a \in Addrs : ConnectDemo(a)
    \/ Disconnect
    \/ \E score \in SnakeScores : SubmitSnakeScore(score)
    \/ \E won \in BOOLEAN : SubmitTicTacToeResult(won)
    \/ \E r \in LadderResults : SubmitSnakeLaddersResult(r[1], r[2])
    \/ \E won \in BOOLEAN : SubmitUnoResult(won)
    \/ \E p \in ProfileInputs : UpdateProfile(p[1], p[2])
    \/ TimerFires
    \/ \E address \in ProfileTargets : GetUserProfile(address)
    \/ ClientReload

(***************************************************************************)
(* Number arithmetic of line 827: Math.round((wins / gamesPlayed) * 100)   *)
(* on IEEE-754 doubles.  A positive double is written n * 2^(e - 53): e    *)
(* is the exponent of its first bit and n, with 2^53 <= n < 2^54, is its   *)
(* 53-bit significand followed by a zero bit.  n is held as six digits of  *)
(* nine bits each, the first digit first.                                  *)
(***************************************************************************)

\* 2^0 .. 2^9
PowersOfTwo == <<1, 2, 4, 8, 16, 32, 64, 128, 256, 512>>

TwoTo(n) == PowersOfTwo[n + 1]

\* Numbers below 512 * 512 carried into nine-bit digits, from the last one
\* up; the result has one digit more than `raw`
RECURSIVE CarryDigits(_, _, _, _)
CarryDigits(raw, i, carry, acc) ==
    IF i = 0 THEN <<carry>> \o acc
    ELSE IF raw[i] + carry >= 512
         THEN CarryDigits(raw, i - 1, (raw[i] + carry) \div 512,
                          <<(raw[i] + carry) % 512>> \o acc)
         ELSE CarryDigits(raw, i - 1, 0, <<raw[i] + carry>> \o acc)

\* Round to nearest, ties to even.  d: the first 54 bits of the exact value
\* (53 and a guard bit); sticky: the exact value has non-zero bits below
\* them; e: the exponent of the first bit.
RoundToDouble(d, sticky, e) ==
    LET guard == d[6] % 2
        odd == (d[6] \div 2) % 2 = 1
        up == guard = 1 /\ (sticky \/ odd)
        raw == [d EXCEPT ![6] = @ - guard + (IF up THEN 2 ELSE 0)]
        c == CarryDigits(raw, 6, 0, <<>>)
    IN  IF c[1] = 0 THEN [d |-> Tail(c), e |-> e]
        ELSE [d |-> <<256, 0, 0, 0, 0, 0>>, e |-> e + 1]

\* w * 2^k for the least k that brings it to g or more
RECURSIVE ScaleUp(_, _, _)
ScaleUp(w, g, k) ==
    IF w >= g THEN [r |-> w, k |-> k] ELSE ScaleUp(2 * w, g, k + 1)

\* Long division: five more nine-bit digits of the quotient r / g, and
\* the remainder
RECURSIVE LongDivision(_, _, _, _)
LongDivision(r, g, n, acc) ==
    IF n = 0 THEN [d |-> acc, rem |-> r]
    ELSE LongDivision((r * 512) % g, g, n - 1, Append(acc, (r * 512) \div g))

\* wins / gamesPlayed for 0 < wins <= gamesPlayed < 4096
Divide(w, g) ==
    LET s == ScaleUp(w, g, 0)
        q == LongDivision((s.r * 256) % g, g, 5, <<(s.r * 256) \div g>>)
    IN  RoundToDouble(q.d, q.rem # 0, 0 - s.k)

\* x * 100: the exact product has 60 or 61 bits, of which the first 54
\* are kept for the rounding
Times100(x) ==
    LET p == CarryDigits([i \in 1..6 |-> x.d[i] * 100], 6, 0, <<>>)
        s == IF p[1] < 64 THEN 6 ELSE 7
        q == [i \in 1..6 |->
                 ((p[i] % TwoTo(s)) * TwoTo(9 - s)) + (p[i + 1] \div TwoTo(s))]
    IN  RoundToDouble(q, p[7] % TwoTo(s) # 0, x.e + s)

\* Math.round(x) for a positive double below 128: the nearest integer,
\* the upper one when two are equally near
MathRound(x) ==
    IF x.e < 0 - 1 THEN 0
    ELSE (x.d[1] \div TwoTo(8 - x.e)) + ((x.d[1] \div TwoTo(7 - x.e)) % 2)

\* winRate: gamesPlayed > 0 ? Math.round((wins / gamesPlayed) * 100) : 0
WinRate(wins, gamesPlayed) ==
    IF gamesPlayed > 0 /\ wins > 0
    THEN MathRound(Times100(Divide(wins, gamesPlayed)))
    ELSE 0

(***************************************************************************)
(* getLeaderboard (useLineraClient.ts, lines 768-852)                      *)
(***************************************************************************)

\* One key of a stored JSON object and its value
Entry(k, v) == [k |-> k, v |-> v]

\* Object.keys(table)
Keys(table) == [i \in DOMAIN table |-> table[i].k]

\* table[address] || dflt
Lookup(table, a, dflt) ==
    IF \E i \in DOMAIN table : table[i].k = a
    THEN table[CHOOSE i \in DOMAIN table : table[i].k = a].v
    ELSE dflt

\* Array.from(new Set(keys)): the first occurrence of every key, in order
RECURSIVE Distinct(_, _)
Distinct(keys, acc) ==
    IF keys = <<>> THEN acc
    ELSE IF \E i \in DOMAIN acc : acc[i] = Head(keys)
         THEN Distinct(Tail(keys), acc)
         ELSE Distinct(Tail(keys), Append(acc, Head(keys)))

\* allPlayers collected from the snake table alone
AllPlayersOfSnake(t) == Distinct(Keys(t.scores), <<>>)

\* allPlayers
AllPlayers(t) ==
    Distinct(Keys(t.scores) \o Keys(t.ttt) \o Keys(t.sl) \o Keys(t.uno), <<>>)

GameTypes == {"snake", "tictactoe", "snakeladders", "uno", "all"}

\* The switch on gameType: score, wins, losses
Scoring(gameType, snakeScore, tttStats, slStats, unoStats) ==
    CASE gameType = "snake" ->
             [score |-> snakeScore, wins |-> snakeScore \div 50, losses |-> 0]
      [] gameType = "tictactoe" ->
             [score |-> tttStats.wins * 100, wins |-> tttStats.wins,
              losses |-> tttStats.losses]
      [] gameType = "snakeladders" ->
             [score |-> slStats.wins * 150, wins |-> slStats.wins,
              losses |-> slStats.losses]
      [] gameType = "uno" ->
             [score |-> unoStats.wins * 100, wins |-> unoStats.wins,
              losses |-> unoStats.losses]
      [] OTHER ->
             [score |-> snakeScore
                        + (tttStats.wins + slStats.wins + unoStats.wins) * 100,
              wins |-> tttStats.wins + slStats.wins + unoStats.wins,
              losses |-> tttStats.losses + slStats.losses + unoStats.losses]

\* The score, wins and losses of one address for a game type
PlayerScoring(t, gameType, address) ==
    Scoring(gameType, Lookup(t.scores, address, 0),
            Lookup(t.ttt, address, NoStats), Lookup(t.sl, address, NoStats),
            Lookup(t.uno, address, NoStats))

\* wins + losses || storedGames[address] || 1
GamesPlayed(t, address, wins, losses) ==
    IF wins + losses # 0 THEN wins + losses
    ELSE IF Lookup(t.games, address, 0) # 0 THEN Lookup(t.games, address, 0)
    ELSE 1

\* The entry built for one address (rank still 0)
BoardEntry(t, gameType, address) ==
    LET s == PlayerScoring(t, gameType, address)
        gamesPlayed == GamesPlayed(t, address, s.wins, s.losses)
    IN  [rank |-> 0, playerName |-> "Player", playerAddress |-> address,
         score |-> s.score, gamesPlayed |-> gamesPlayed,
         winRate |-> WinRate(s.wins, gamesPlayed)]

\* An entry put in front of the entries of equal score
RECURSIVE InsertBeforeEqual(_, _)
InsertBeforeEqual(e, sorted) ==
    IF sorted = <<>> THEN <<e>>
    ELSE IF Head(sorted).score > e.score
         THEN <<Head(sorted)>> \o InsertBeforeEqual(e, Tail(sorted))
         ELSE <<e>> \o sorted

\* One entry put into a list sorted by descending score, behind the
\* entries of equal score
RECURSIVE InsertByScore(_, _)
InsertByScore(e, sorted) ==
    IF sorted = <<>> THEN <<e>>
    ELSE IF Head(sorted).score >= e.score
         THEN <<Head(sorted)>> \o InsertByScore(e, Tail(sorted))
         ELSE <<e>> \o sorted

\* The entries left in iteration order
Unsorted(entries, sorted) == entries

\* entries.sort((a, b) => b.score - a.score): a stable sort
RECURSIVE SortByScore(_, _)
SortByScore(entries, sorted) ==
    IF entries = <<>> THEN sorted
    ELSE SortByScore(Tail(entries), InsertByScore(Head(entries), sorted))

\* entries.forEach((entry, index) => { entry.rank = index + 1; })
WithRanks(entries) == [i \in DOMAIN entries |-> [entries[i] EXCEPT !.rank = i]]

\* list.slice(0, limit) for a limit of 0 or more
Slice(list, limit) ==
    SubSeq(list, 1, IF limit < Len(list) THEN limit ELSE Len(list))

\* demoPlayers
DemoPlayers ==
    << <<"CryptoKing", 12847, 234, 78>>, <<"Web3Pro", 11293, 198, 72>>,
       <<"BlockMaster", 10892, 312, 65>>, <<"ChainGamer", 9847, 156, 69>>,
       <<"PixelNinja", 8921, 287, 61>>, <<"TokenChamp", 8456, 201, 58>>,
       <<"DeFiGamer", 7892, 178, 55>>, <<"NFTPlayer", 7234, 245, 52>>,
       <<"MetaGamer", 6891, 134, 60>>, <<"ZeroLag", 6543, 167, 54>> >>

\* generateDemoLeaderboard(gameType, limit); the address derived from the
\* name's hash is written as the name
GenerateDemoLeaderboard(limit) ==
    Slice([i \in DOMAIN DemoPlayers |->
              [rank |-> i, playerName |-> DemoPlayers[i][1],
               playerAddress |-> DemoPlayers[i][1],
               score |-> DemoPlayers[i][2], gamesPlayed |-> DemoPlayers[i][3],
               winRate |-> DemoPlayers[i][4]]], limit)

\* entries, sorted and ranked
Ranking(t, gameType) ==
    LET allPlayers == AllPlayers(t)
        entries == [i \in DOMAIN allPlayers |->
                        BoardEntry(t, gameType, allPlayers[i])]
    IN  WithRanks(SortByScore(entries, <<>>))

\* The demo-mode body of getLeaderboard; a table that is not valid JSON
\* makes JSON.parse throw into the catch
LeaderboardLocal(t, gameType, limit) ==
    IF ~t.readable THEN GenerateDemoLeaderboard(limit)
    ELSE IF Len(Ranking(t, gameType)) = 0 THEN GenerateDemoLeaderboard(limit)
    ELSE Slice(Ranking(t, gameType), limit)

\* this.application is bound by connect() when an application id is set
LcApplicationBound(l) == l.client /\ appConfigured

\* What the remote application can answer to a leaderboard query
RemoteAnswers == {<<>>, GenerateDemoLeaderboard(1)}

\* The stored tables the queries are made on
A == "0xa"
B == "0xb"
C == "0xc"

SnakeTables ==
    { <<>>,
      <<Entry(A, 100), Entry(B, 250), Entry(C, 250)>>,
      <<Entry(C, 250), Entry(B, 250), Entry(A, 100)>>,
      <<Entry(A, 120)>>,
      <<Entry(B, 30), Entry(A, 400)>> }

TicTacToeTables ==
    { <<>>,
      <<Entry(A, [wins |-> 1, losses |-> 2])>>,
      <<Entry(B, [wins |-> 23, losses |-> 17])>>,
      <<Entry(C, [wins |-> 2, losses |-> 0]),
        Entry(A, [wins |-> 0, losses |-> 1])>> }

SnakeLaddersTables ==
    { <<>>,
      <<Entry(A, [wins |-> 1, losses |-> 0, bestPosition |-> 1])>>,
      <<Entry(C, [wins |-> 0, losses |-> 2, bestPosition |-> 2])>> }

UnoTables == { <<>>, <<Entry(B, [wins |-> 1, losses |-> 1])>> }

GamesTables == { <<>>, <<Entry(A, 2)>> }

\* localStorage with a table that is not valid JSON
Unreadable ==
    [readable |-> FALSE, scores |-> <<>>, ttt |-> <<>>, sl |-> <<>>,
     uno |-> <<>>, games |-> <<>>]

BoardStores ==
    {Unreadable} \cup
    [readable : {TRUE}, scores : SnakeTables, ttt : TicTacToeTables,
     sl : SnakeLaddersTables, uno : UnoTables, games : GamesTables]

Limits == {1, 2, 10}

\* No leaderboard query was made yet
NoBoard == [from |-> "none", gameType |-> "", limit |-> 0, list |-> <<>>]

\* No operation of the remote adapter was called yet
NoReturn == [op |-> "none", ret |-> "", calls |-> 0, response |-> "none"]

BoardInit ==
    /\ tables \in BoardStores
    /\ lbRet = NoBoard
    /\ lcRet = NoReturn

\* getLeaderboard(gameType, limit) of the hook
GetLeaderboard(gameType, limit) ==
    /\ IF ~rHook.usingDemoMode /\ LcIsConnected(lc)
       THEN \E answer \in RemoteAnswers :
                lbRet' = [from |-> "remote", gameType |-> gameType,
                          limit |-> limit,
                          list |-> IF LcApplicationBound(lc) THEN answer
                                   ELSE <<>>]
       ELSE lbRet' = [from |-> "local", gameType |-> gameType,
                      limit |-> limit,
                      list |-> LeaderboardLocal(tables, gameType, limit)]
    /\ UNCHANGED <<tables, lcRet, achVars, clientVars, gameVars, tabVars,
                   sessionAddress>>

\* lineraClient.getLeaderboard(gameType, limit) of the remote adapter:
\* result?.data?.leaderboard || []
LineraGetLeaderboard(gameType, limit) ==
    /\ \E answer \in RemoteAnswers :
           lbRet' = [from |-> "adapter", gameType |-> gameType,
                     limit |-> limit,
                     list |-> IF LcApplicationBound(lc) THEN answer ELSE <<>>]
    /\ UNCHANGED <<tables, lcRet, achVars, clientVars, gameVars, tabVars,
                   sessionAddress>>

(***************************************************************************)
(* LineraGameClient: query, mutate and the operations (lines 249-355)      *)
(***************************************************************************)

\* What application.query(...) can do: throw, resolve to text that is not
\* JSON, to a response without data, to one whose data lacks the field the
\* operation reads, or to one that has it
Responses == {"throws", "notjson", "nodata", "emptydata", "data"}

\* query(graphqlQuery): null without an application; otherwise one call of
\* application.query inside try/catch, null when it or JSON.parse throws.
\* mutate(graphqlMutation) is query (lines 268-270)
Query(l, response) ==
    IF ~LcApplicationBound(l)
    THEN [result |-> "null", calls |-> 0, response |-> "none"]
    ELSE [result |-> IF response \in {"throws", "notjson"} THEN "null"
                     ELSE response,
          calls |-> 1, response |-> response]

\* Boolean(result?.data)
DataOps == {"submitSnakeScore", "submitTicTacToeResult",
            "submitSnakeLaddersResult", "submitUnoResult", "updateProfile",
            "submitMove"}

\* The operations that take `address || this.chainId` as their target
TargetOps == {"getUserProfile", "getSnakeHighScore"}

AdapterOps ==
    DataOps \cup TargetOps
            \cup {"createRoom", "joinRoom", "getLeaderboard", "getActiveRooms"}

\* getLeaderboard falling back to a placeholder list in place of []
LineraReturnPlaceholder(op, result) ==
    CASE op \in DataOps ->
             IF result \in {"emptydata", "data"} THEN "true" ELSE "false"
      [] op = "joinRoom" -> IF result = "data" THEN "true" ELSE "false"
      [] op \in {"createRoom", "getUserProfile"} ->
             IF result = "data" THEN "value" ELSE "null"
      [] op = "getActiveRooms" -> IF result = "data" THEN "value" ELSE "[]"
      [] op = "getLeaderboard" -> "value"
      [] op = "getSnakeHighScore" -> IF result = "data" THEN "value" ELSE "0"

\* What each operation makes of the result of its one query or mutation
LineraReturn(op, result) ==
    CASE op \in DataOps ->
             IF result \in {"emptydata", "data"} THEN "true" ELSE "false"
      [] op = "joinRoom" -> IF result = "data" THEN "true" ELSE "false"
      [] op \in {"createRoom", "getUserProfile"} ->
             IF result = "data" THEN "value" ELSE "null"
      [] op \in {"getLeaderboard", "getActiveRooms"} ->
             IF result = "data" THEN "value" ELSE "[]"
      [] op = "getSnakeHighScore" -> IF result = "data" THEN "value" ELSE "0"

\* One operation of the singleton, called with or without an address
LineraCall(op, withAddress) ==
    /\ \E response \in IF LcApplicationBound(lc) THEN Responses
                         ELSE {"none"} :
           LET noTarget == op \in TargetOps /\ ~withAddress /\ lc.chainId = ""
               q == Query(lc, response)
           IN lcRet' = IF noTarget
                       THEN [op |-> op, ret |-> LineraReturn(op, "null"),
                             calls |-> 0, response |-> "none"]
                       ELSE [op |-> op, ret |-> LineraReturn(op, q.result),
                             calls |-> q.calls, response |-> q.response]
    /\ UNCHANGED <<tables, lbRet, achVars, clientVars, gameVars, tabVars,
                   sessionAddress>>

\* lineraClient.connect() called on the singleton (lines 158-204): success
\* false unless initializeLinera() returned true and the module is loaded;
\* past that check the wallet can still fail or a call can throw
LineraConnect ==
    LET r == InitializeLinera(modState, appConfigured)
    IN  /\ modState' = r.m
        /\ initAttempts' = initAttempts + (IF r.tried THEN 1 ELSE 0)
        /\ lastInitRet' = r.ret
        /\ IF r.ret /\ r.m.lineraModule
           THEN \E success \in BOOLEAN :
                    /\ lc' = IF success
                             THEN [client |-> TRUE, wallet |-> TRUE,
                                   chainId |-> RemoteChain]
                             ELSE lc
                    /\ lcRet' = [op |-> "connect",
                                 ret |-> IF success THEN "true" ELSE "false",
                                 calls |-> 0, response |-> "none"]
           ELSE /\ lcRet' = [op |-> "connect", ret |-> "false", calls |-> 0,
                             response |-> "none"]
                /\ UNCHANGED lc
        /\ UNCHANGED <<appConfigured, hook, rHook, initAttempted, ls, pending,
                       connectTimers, cCalls, connects, servedRemote, snakeMax,
                       lastDone>>
        /\ UNCHANGED <<tables, lbRet, achVars, gameVars, tabVars,
                       sessionAddress>>

AdapterNext == \E op \in AdapterOps, withAddress \in BOOLEAN :
                   LineraCall(op, withAddress)

BoardNext ==
    \/ \E g \in GameTypes, n \in Limits : GetLeaderboard(g, n)
    \/ \E g \in GameTypes, n \in Limits : LineraGetLeaderboard(g, n)

(***************************************************************************)
(* SnakeGame: the game loop and the end of a round                         *)
(***************************************************************************)

\* The score a round can reach in the model; a food is worth 10 (line 313)
MaxScore == 20

\* The values the callbacks of a render capture
CapturedGame == [gameState |-> gameState, score |-> roundScore,
                 highScore |-> highScore]

\* The component as mounted, without a 'snake-highscore' key (lines 177-186)
GameInit ==
    /\ gameState = "idle"
    /\ roundScore = 0
    /\ highScore = 0
    /\ headAtWall = FALSE
    /\ rGame = [gameState |-> "idle", score |-> 0, highScore |-> 0]
    /\ lastUpdater = "none"
    /\ roundTracks = 0

\* startGame() from idle or gameover (lines 221-226): resetGame and
\* setGameState("playing")
StartGame ==
    /\ rGame.gameState \in {"idle", "gameover"}
    /\ gameState' = "playing"
    /\ roundScore' = 0
    /\ headAtWall' = FALSE
    /\ lastUpdater' = "none"
    /\ roundTracks' = 0
    /\ UNCHANGED <<highScore, rGame>>
    /\ UNCHANGED achVars
    /\ UNCHANGED clientVars
    /\ UNCHANGED boardVars
    /\ UNCHANGED tabVars
    /\ UNCHANGED sessionAddress

\* handleGameOver(finalScore), lines 242-260, with the highScore and the
\* trackGamePlayed its closure holds
HandleGameOver(finalScore) ==
    LET isNewHighScore == finalScore > rGame.highScore
    IN  /\ gameState' = "gameover"
        /\ highScore' = IF isNewHighScore THEN finalScore ELSE highScore
        /\ TrackGamePlayed("snake", isNewHighScore,
                           [NoExtra EXCEPT !.score = finalScore])
        /\ roundTracks' = roundTracks + 1

\* A tick of the interval: moveSnake (lines 262-334) of the render that
\* set the interval, and the setSnake updater it passes.  On a collision
\* the updater calls handleGameOver(score) and returns the snake as it
\* was; otherwise the head moves (towards a wall or not) and may eat.
Tick ==
    /\ rGame.gameState = "playing"
    /\ IF headAtWall
       THEN /\ HandleGameOver(rGame.score)
            /\ lastUpdater' = "collided"
            /\ UNCHANGED <<roundScore, headAtWall, rGame>>
       ELSE /\ \E wall \in BOOLEAN : headAtWall' = wall
            /\ \E eats \in BOOLEAN :
                  roundScore' = IF eats /\ roundScore < MaxScore
                                THEN roundScore + 10 ELSE roundScore
            /\ lastUpdater' = "moved"
            /\ UNCHANGED <<gameState, highScore, rGame, roundTracks>>
            /\ UNCHANGED achVars
            /\ UNCHANGED clientVars
            /\ UNCHANGED boardVars
            /\ UNCHANGED tabVars
            /\ UNCHANGED sessionAddress

\* React calls the updater of the last tick once more on the same snake
\* (as it does for an updater function in Strict Mode): a collision is
\* found again and handleGameOver is called again
UpdaterAgain ==
    /\ lastUpdater = "collided"
    /\ HandleGameOver(rGame.score)
    /\ lastUpdater' = "none"
    /\ UNCHANGED <<roundScore, headAtWall, rGame>>

\* SnakeGame renders: its callbacks and those of useAchievements are
\* rebuilt over the current state, and the interval effect (lines 381-391)
\* clears the interval and sets a new one while gameState is "playing"
GameRender ==
    /\ Mounted
    /\ ~loadPending
    /\ <<rGame, rAchievements, rStats>> # <<CapturedGame, achievements, stats>>
    /\ rGame' = CapturedGame
    /\ rAchievements' = achievements
    /\ rStats' = stats
    /\ lastUpdater' = "none"
    /\ UNCHANGED <<gameState, roundScore, highScore, headAtWall,
                   roundTracks>>
    /\ UNCHANGED <<achievements, stats, recentUnlock, achStorage, loadPending,
                   calls, lastCall, lastRet, trackAwarded, checkAwarded>>
    /\ UNCHANGED clientVars
    /\ UNCHANGED boardVars
    /\ UNCHANGED tabVars
    /\ UNCHANGED sessionAddress

GameNext ==
    \/ LoadEffect
    \/ StartGame
    \/ Tick
    \/ UpdaterAgain
    \/ GameRender

(***************************************************************************)
(* submitTicTacToeResult called in two tabs of one player                  *)
(***************************************************************************)

\* The calls made in the model
MaxTabCalls == 3

Tabs == {1, 2}

\* No tab has written yet
NoWrite == [tab |-> 0, read |-> NoEntries, won |-> FALSE]

TabsInit ==
    /\ tabs = [t \in Tabs |-> [pc |-> "idle", won |-> FALSE,
                                storedStats |-> NoEntries]]
    /\ tabCalls = 0
    /\ submitted = 0
    /\ lastWrite = NoWrite

\* Every variable but the store and the tabs
TabFrame ==
    /\ UNCHANGED <<appConfigured, modState, lc, hook, rHook, initAttempted,
                   pending, connectTimers, cCalls, connects, initAttempts,
                   lastInitRet, servedRemote, snakeMax, lastDone>>
    /\ UNCHANGED achVars
    /\ UNCHANGED boardVars
    /\ UNCHANGED gameVars
    /\ UNCHANGED sessionAddress

\* submitTicTacToeResult(won) in tab t, whose mount effect restored the
\* stored wallet: the guard passes in demo mode and the 200 ms timer starts
TabSubmit(t, won) ==
    /\ tabCalls < MaxTabCalls
    /\ ls.wallet # NoWallet
    /\ tabs[t].pc = "idle"
    /\ tabs' = [tabs EXCEPT ![t].pc = "timer", ![t].won = won]
    /\ tabCalls' = tabCalls + 1
    /\ UNCHANGED <<ls, submitted, lastWrite>>
    /\ TabFrame

\* JSON.parse(localStorage.getItem('linera-tictactoe-stats') || '{}')
TabParse(t) ==
    /\ tabs[t].pc = "timer"
    /\ tabs' = [tabs EXCEPT ![t].pc = "parsed", ![t].storedStats = ls.ttt]
    /\ UNCHANGED <<ls, tabCalls, submitted, lastWrite>>
    /\ TabFrame

\* The write of a tab that parses the key again just before it writes
TabSetItemReadAgain(t) ==
    /\ tabs[t].pc = "parsed"
    /\ ls' = SubmitTicTacToeResultLocal(ls, ls.wallet, tabs[t].won)
    /\ tabs' = [tabs EXCEPT ![t].pc = "idle"]
    /\ submitted' = submitted + 1
    /\ lastWrite' = [tab |-> t, read |-> tabs[t].storedStats,
                     won |-> tabs[t].won]
    /\ UNCHANGED tabCalls
    /\ TabFrame

\* The entry counted on what the tab parsed, localStorage.setItem of the
\* whole table, return true
TabSetItem(t) ==
    /\ tabs[t].pc = "parsed"
    /\ ls' = [ls EXCEPT !.ttt =
                 SubmitTicTacToeResultLocal([ls EXCEPT !.ttt = tabs[t].storedStats],
                                            ls.wallet, tabs[t].won).ttt]
    /\ tabs' = [tabs EXCEPT ![t].pc = "idle"]
    /\ submitted' = submitted + 1
    /\ lastWrite' = [tab |-> t, read |-> tabs[t].storedStats,
                     won |-> tabs[t].won]
    /\ UNCHANGED tabCalls
    /\ TabFrame

TabsNext ==
    \/ \E t \in Tabs, won \in BOOLEAN : TabSubmit(t, won)
    \/ \E t \in Tabs : TabParse(t)
    \/ \E t \in Tabs : TabSetItem(t)

(***************************************************************************)
(* Specifications                                                          *)
(***************************************************************************)

Init ==
    /\ AchInit /\ ClientInit /\ BoardInit /\ GameInit /\ TabsInit
    /\ sessionAddress = NoWallet

Next == AchNext \/ ClientNext \/ BoardNext \/ GameNext \/ TabsNext

\* The achievement hook, beside a client hook that is not used
InitAch ==
    /\ Init
    /\ ~appConfigured
    /\ ls = EmptyStore
    /\ tables = Unreadable
    /\ achStorage # CorruptItem

SpecAch == InitAch /\ [][AchNext]_vars

\* The client hook in a build without VITE_LINERA_APP_ID, beside an
\* achievement hook that is not used
InitClient ==
    /\ Init
    /\ achStorage = NoItem
    /\ ~appConfigured
    /\ tables = Unreadable
    /\ ls.corrupt = {}

SpecClient == InitClient /\ [][ClientNext]_vars

\* Backend selection: the sessions of a build with or without
\* VITE_LINERA_APP_ID, with snake submissions and profile queries
BackendNext ==
    \/ CheckConnection
    \/ ClientRender
    \/ Connect
    \/ \E a \in Addrs : ConnectDemo(a)
    \/ Disconnect
    \/ \E score \in SnakeScores : SubmitSnakeScore(score)
    \/ TimerFires
    \/ \E address \in ProfileTargets : GetUserProfile(address)
    \/ ClientReload

InitBackend ==
    Init /\ achStorage = NoItem /\ tables = Unreadable /\ ls.corrupt = {}

SpecBackend == InitBackend /\ [][BackendNext]_vars

\* The singleton's operations called in any state of a session
AdapterSessionNext ==
    \/ CheckConnection
    \/ ClientRender
    \/ Connect
    \/ \E a \in Addrs : ConnectDemo(a)
    \/ Disconnect
    \/ ClientReload
    \/ AdapterNext

SpecAdapter == InitBackend /\ [][AdapterSessionNext]_vars

\* Backend selection with the singleton's connect() also called directly
SelectNext == BackendNext \/ LineraConnect

SpecSelect == InitBackend /\ [][SelectNext]_vars

\* The leaderboard queries on the stored tables, in a fresh session of a
\* build without VITE_LINERA_APP_ID
InitBoard ==
    Init /\ achStorage = NoItem /\ ~appConfigured /\ ls = EmptyStore

SpecBoard == InitBoard /\ [][BoardNext]_vars

\* The client hook with its room operations, one argument per submission
RoomsNext ==
    \/ CheckConnection
    \/ ClientRender
    \/ Connect
    \/ \E a \in {"0xa"} : ConnectDemo(a)
    \/ Disconnect
    \/ \E score \in {25} : SubmitSnakeScore(score)
    \/ \E won \in {TRUE} : SubmitTicTacToeResult(won)
    \/ \E r \in {<<TRUE, 1>>} : SubmitSnakeLaddersResult(r[1], r[2])
    \/ \E won \in {TRUE} : SubmitUnoResult(won)
    \/ \E p \in ProfileInputs : UpdateProfile(p[1], p[2])
    \/ \E g \in RoomGames, m \in RoomSizes, f \in RoomFees : CreateRoom(g, m, f)
    \/ \E id \in RoomIds : JoinRoom(id)
    \/ TimerFires
    \/ ClientReload

\* The store as earlier sessions left it
InitRooms == InitClient /\ ls = EarlierSessions

SpecRooms == InitRooms /\ [][RoomsNext]_vars

\* One session of the client hook, from the page load on: connect,
\* disconnect, the submissions, the profile and the room operations
SessionNext ==
    \/ CheckConnection
    \/ ClientRender
    \/ Connect
    \/ \E a \in Addrs : ConnectDemo(a)
    \/ Disconnect
    \/ \E score \in {25} : SubmitSnakeScore(score)
    \/ \E won \in {TRUE} : SubmitTicTacToeResult(won)
    \/ \E p \in ProfileInputs : UpdateProfile(p[1], p[2])
    \/ \E g \in RoomGames, m \in RoomSizes, f \in RoomFees : CreateRoom(g, m, f)
    \/ \E id \in RoomIds : JoinRoom(id)
    \/ TimerFires
    \/ \E address \in ProfileTargets : GetUserProfile(address)

SpecSession == InitClient /\ [][SessionNext]_vars

\* The profiles updateProfile is called with: a name, and the empty name
ProfileEdits == {<<"neo", 3>>, <<"", 0>>}

\* The profile operations among the other operations of the client hook
ProfileNext ==
    \/ CheckConnection
    \/ ClientRender
    \/ Connect
    \/ \E a \in Addrs : ConnectDemo(a)
    \/ Disconnect
    \/ \E won \in {TRUE} : SubmitTicTacToeResult(won)
    \/ \E p \in ProfileEdits : UpdateProfile(p[1], p[2])
    \/ \E g \in {"uno"}, m \in RoomSizes, f \in RoomFees : CreateRoom(g, m, f)
    \/ TimerFires
    \/ \E address \in ProfileTargets : GetUserProfile(address)
    \/ ClientReload

SpecProfile == InitClient /\ [][ProfileNext]_vars

\* Two tabs opened on the store earlier sessions left, wallet included
SpecTabs == InitRooms /\ [][TabsNext]_vars

\* The sizes rooms are created with: none, one and two places
LobbySizes == {0, 1, 2}

\* createRoom and joinRoom of a connected player on the local room table
LobbyNext ==
    \/ CheckConnection
    \/ ClientRender
    \/ \E g \in {"uno"}, m \in LobbySizes, f \in RoomFees : CreateRoom(g, m, f)
    \/ \E id \in RoomIds : JoinRoom(id)
    \/ TimerFires

SpecLobby == InitRooms /\ [][LobbyNext]_vars

\* Results submitted in a burst: every call is started before any call of
\* the session has completed
BurstSubmit ==
    /\ lastDone = NoDone
    /\ \/ \E won \in BOOLEAN : SubmitTicTacToeResult(won)
       \/ \E won \in BOOLEAN : SubmitUnoResult(won)

BurstNext ==
    \/ CheckConnection
    \/ ClientRender
    \/ BurstSubmit
    \/ TimerFires

SpecBurst == InitRooms /\ [][BurstNext]_vars

\* SnakeGame with its achievement hook
InitGame == InitAch /\ achStorage = NoItem

SpecGame == InitGame /\ [][GameNext]_vars

\* Both hooks over a localStorage in which one key holds a text that is
\* not JSON
CorruptNext ==
    \/ LoadEffect
    \/ Reload
    \/ CheckConnection
    \/ ClientRender
    \/ \E score \in SnakeScores : SubmitSnakeScore(score)
    \/ \E won \in BOOLEAN : SubmitTicTacToeResult(won)
    \/ \E p \in ProfileInputs : UpdateProfile(p[1], p[2])
    \/ TimerFires
    \/ \E address \in ProfileTargets : GetUserProfile(address)
    \/ ClientReload

InitCorrupt ==
    /\ Init
    /\ ~appConfigured
    /\ tables = Unreadable
    /\ achStorage = CorruptItem
    /\ ls \in CorruptStores

SpecCorrupt == InitCorrupt /\ [][CorruptNext]_vars

(***************************************************************************)
(* Properties of the achievement hook                                      *)
(***************************************************************************)

\* The player's achievement list: what the hook holds, or, while the mount
\* effect of a new session is still to run, what it is about to load.
PlayerAchievements ==
    IF ~loadPending THEN achievements
    ELSE IF achStorage.kind = "null" THEN AllLocked
    ELSE Merge(achStorage.achievements)

\* This step is a call of trackGamePlayed / of checkAndUnlock.
IsTrackStep == calls' = calls + 1 /\ lastCall' = "track"

IsCheckStep == calls' = calls + 1 /\ lastCall' = "check"

Batch(ret) == {ret.batch[i] : i \in DOMAIN ret.batch}

\* C2: once an achievement is unlocked it is never locked again and its
\* unlockedAt never changes, whatever trackGamePlayed, checkAndUnlock,
\* clearRecentUnlock and reload steps follow.
C2_UnlockIsPermanent ==
    [][\A id \in AchIds :
          IsUnlocked(PlayerAchievements, id)
          => /\ IsUnlocked(PlayerAchievements', id)
             /\ PlayerAchievements'.at[id] = PlayerAchievements.at[id]]_vars

\* C3: no achievement is awarded twice: a trackGamePlayed call returns no id
\* an earlier call returned, checkAndUnlock returns true at most once per id,
\* and a call made when the achievement is unlocked neither reports it nor
\* stamps a new unlockedAt.
C3_NoDoubleAward ==
    [][/\ IsTrackStep =>
            \A id \in Batch(lastRet') :
                id \notin trackAwarded /\ ~IsUnlocked(PlayerAchievements, id)
       /\ (IsCheckStep /\ lastRet'.ok) => checkAwarded' # checkAwarded
       /\ (IsTrackStep \/ IsCheckStep) =>
            \A id \in AchIds :
                (IsUnlocked(achievements, id) /\ IsUnlocked(achievements', id))
                => achievements'.at[id] = achievements.at[id]]_vars

\* C6: on every trackGamePlayed call an achievement whose threshold is first
\* reached by the counters resulting from the call is unlocked and returned
\* by that call (unless it had been unlocked before, by checkAndUnlock).
C6_UnlockedBySameCall ==
    [][IsTrackStep =>
          \A id \in CounterIds :
              (Condition(id, stats') /\ ~Condition(id, rStats)
                   /\ ~IsUnlocked(PlayerAchievements, id))
              => (IsUnlocked(achievements', id) /\ id \in Batch(lastRet'))]_vars

Max(a, b) == IF a >= b THEN a ELSE b

\* win, win, loss, win from the all-zero stats
StreakExample ==
    LET s1 == UpdateStreak(ZeroStats, TRUE)
        s2 == UpdateStreak(s1, TRUE)
        s3 == UpdateStreak(s2, FALSE)
        s4 == UpdateStreak(s3, TRUE)
    IN  /\ <<s1.currentWinStreak, s2.currentWinStreak,
             s3.currentWinStreak, s4.currentWinStreak>> = <<1, 2, 0, 1>>
        /\ s4.bestWinStreak = 2

C9_PredicatesMonotonic ==
    [][IsTrackStep =>
          \A id \in CounterIds :
              Condition(id, rStats) => Condition(id, stats')]_vars


\* The achievements pushed for a flag of extraData, with their flag.
OneShotFlag ==
    [ttt_perfect |-> "perfectTTT", uno_plus4 |-> "playedPlus4",
     uno_reverse |-> "wonWithReverse", sl_no_snakes |-> "noSnakesHit"]

OneShotIds == DOMAIN OneShotFlag

\* C19: a trackGamePlayed call returns, or turns from locked to unlocked in
\* the hook's list, a one-shot achievement (ttt_perfect, uno_plus4, uno_reverse, sl_no_snakes) only if
\* its flag is set in the extraData of that very call: neither a flag of an
\* earlier call nor any value of the counters unlocks it.
C19_OneShotNeedsOwnFlag ==
    [][\A in \in TrackInputs :
          TrackGamePlayed(in[1], in[2], in[3])
          => \A id \in OneShotIds :
                 (\/ id \in Batch(lastRet')
                  \/ IsUnlocked(achievements', id)
                        /\ ~IsUnlocked(achievements, id))
                 => in[3][OneShotFlag[id]]]_vars

\* ttt_perfect was awarded by an earlier call that carried the flag, and a
\* later call without the flag, which did unlock other achievements, left
\* it locked.
C19_Witness ==
    /\ lastCall = "track"
    /\ ~loadPending
    /\ achievements.full
    /\ "ttt_perfect" \in trackAwarded
    /\ ~IsUnlocked(achievements, "ttt_perfect")
    /\ lastRet.batch # <<>>

\* The order in which trackGamePlayed evaluates the achievements.
EvaluationOrder ==
    CounterChecks \o <<"ttt_perfect", "uno_plus4", "uno_reverse",
                       "sl_no_snakes">>

EvaluationPlace(id) ==
    CHOOSE i \in DOMAIN EvaluationOrder : EvaluationOrder[i] = id

\* The id of a non-empty set that is evaluated last.
LastEvaluated(ids) ==
    CHOOSE id \in ids :
        \A other \in ids : EvaluationPlace(other) <= EvaluationPlace(id)

\* C20: a trackGamePlayed call that unlocks achievements records all of
\* them as unlocked (in the list and in the stored record), returns exactly
\* them, and sets recentUnlock to the one evaluated last; a call that
\* unlocks none leaves recentUnlock unchanged.
C20_AllRecordedLastSurfaced ==
    [][IsTrackStep =>
          IF lastRet'.batch # <<>>
          THEN /\ \A id \in Batch(lastRet') :
                      /\ IsUnlocked(achievements', id)
                      /\ IsUnlocked(achStorage'.achievements, id)
               /\ Batch(lastRet')
                    = {id \in AchIds : /\ IsUnlocked(achievements', id)
                                       /\ ~IsUnlocked(rAchievements, id)}
               /\ recentUnlock'.id = LastEvaluated(Batch(lastRet'))
          ELSE recentUnlock' = recentUnlock]_vars

\* A call unlocked several achievements and recentUnlock is the last one.
C20_Witness ==
    /\ lastCall = "track"
    /\ Len(lastRet.batch) >= 3
    /\ recentUnlock.id = lastRet.batch[Len(lastRet.batch)]
    /\ \A id \in Batch(lastRet) : IsUnlocked(achievements, id)

\* What a new session loads from a stored record: <<achievements, stats>>
LoadedFrom(item) ==
    IF item.kind = "null" THEN <<AllLocked, ZeroStats>>
    ELSE <<Merge(item.achievements), item.stats>>

\* C25: after every trackGamePlayed or checkAndUnlock call the persisted
\* record, loaded by a new session, gives the achievements the hook holds
\* (the same unlocked ids with the same unlockedAt) and the stats it holds.
C25_RestartKeepsState ==
    [][(IsTrackStep \/ IsCheckStep)
          => LoadedFrom(achStorage') = <<achievements', stats'>>]_vars

\* The threshold of each counter-based achievement, on the counters the
\* achievement is named after.
ThresholdReached(id, s) ==
    CASE id = "first_game"     -> s.totalGames >= 1
      [] id = "play_10"        -> s.totalGames >= 10
      [] id = "play_50"        -> s.totalGames >= 50
      [] id = "play_100"       -> s.totalGames >= 100
      [] id = "first_win"      -> s.totalWins >= 1
      [] id = "win_streak_3"   -> s.bestWinStreak >= 3
      [] id = "win_streak_5"   -> s.bestWinStreak >= 5
      [] id = "win_streak_10"  -> s.bestWinStreak >= 10
      [] id = "snake_50"       -> s.snakeHighScore >= 50
      [] id = "snake_100"      -> s.snakeHighScore >= 100
      [] id = "snake_200"      -> s.snakeHighScore >= 200
      [] id = "snake_500"      -> s.snakeHighScore >= 500
      [] id = "ttt_first_win"  -> s.tttWins >= 1
      [] id = "ttt_5_wins"     -> s.tttWins >= 5
      [] id = "ttt_20_wins"    -> s.tttWins >= 20
      [] id = "sl_first_win"   -> s.slWins >= 1
      [] id = "uno_first_win"  -> s.unoWins >= 1
      [] id = "uno_domination" -> s.unoWins >= 10

\* Every counter-based achievement is unlocked iff its threshold is reached
UnlockedIffReached(list, s) ==
    \A id \in CounterIds : IsUnlocked(list, id) <=> ThresholdReached(id, s)

\* The call about to be made follows the render of everything before it
CallsOneAfterAnother ==
    ~loadPending /\ rAchievements = achievements /\ rStats = stats

\* C28: with trackGamePlayed calls made one after another (each on the
\* rendered result of the one before), a record in which every
\* counter-based achievement is unlocked iff its counter has reached its
\* threshold - as the fresh record is - is again such a record after the
\* call: games played, wins, best streak, snake high score and the win
\* counters of the three games.
C28_UnlockedIffThreshold ==
    [][(IsTrackStep /\ CallsOneAfterAnother
          /\ achievements.full /\ UnlockedIffReached(achievements, stats))
          => UnlockedIffReached(achievements', stats')]_vars

\* Three wins in a row from the fresh record: win_streak_3 is unlocked.
C28_Witness ==
    /\ lastCall = "track"
    /\ calls = 3
    /\ achStorage.kind = "json"
    /\ stats.totalGames = 3
    /\ stats.bestWinStreak = 3
    /\ IsUnlocked(achievements, "win_streak_3")
    /\ UnlockedIffReached(achievements, stats)

\* The closures are those of a render that an earlier call has outdated
CallNotYetRendered ==
    /\ lastCall \in {"track", "check"}
    /\ <<rAchievements, rStats>> # <<achievements, stats>>

\* C29: a trackGamePlayed call made after another call and before the
\* hook has rendered again is counted on top of it: the counters are those
\* of the call applied to the current stats (totalGames one more), and
\* every achievement unlocked so far stays unlocked in the list and in the
\* persisted record.
C29_BothCallsCounted ==
    [][\A in \in TrackInputs :
          (TrackGamePlayed(in[1], in[2], in[3]) /\ CallNotYetRendered)
          => /\ stats' = NewStats(stats, in[1], in[2], in[3])
             /\ \A id \in AchIds :
                    IsUnlocked(achievements, id)
                    => /\ IsUnlocked(achievements', id)
                       /\ IsUnlocked(achStorage'.achievements, id)]_vars

\* C30: a trackGamePlayed or checkAndUnlock call made while the start-up
\* load is still to be applied leaves every achievement that is unlocked
\* in the persisted record unlocked in the record it writes back.
C30_EarlyCallKeepsUnlocks ==
    [][((IsTrackStep \/ IsCheckStep) /\ loadPending)
          => \A id \in AchIds :
                 IsUnlocked(achStorage.achievements, id)
                 => IsUnlocked(achStorage'.achievements, id)]_vars

\* The player's stats: what the hook holds, or, while the mount effect of a
\* new session is still to run, what it is about to load.
PlayerStats == IF ~loadPending THEN stats ELSE LoadedFrom(achStorage)[2]

\* 0 <= currentWinStreak <= bestWinStreak <= totalWins <= totalGames, and
\* the wins of the three games are among the total wins
StatsOrdered(s) ==
    /\ 0 <= s.currentWinStreak
    /\ s.currentWinStreak <= s.bestWinStreak
    /\ s.bestWinStreak <= s.totalWins
    /\ s.totalWins <= s.totalGames
    /\ s.tttWins + s.slWins + s.unoWins <= s.totalWins

\* No counter but currentWinStreak is smaller in t than in s
StatsNotSmaller(s, t) ==
    /\ s.totalGames <= t.totalGames
    /\ s.totalWins <= t.totalWins
    /\ s.bestWinStreak <= t.bestWinStreak
    /\ s.snakeHighScore <= t.snakeHighScore
    /\ s.tttWins <= t.tttWins
    /\ s.slWins <= t.slWins
    /\ s.unoWins <= t.unoWins

\* C31: the stats are ordered (0 <= currentWinStreak <= bestWinStreak <=
\* totalWins <= totalGames, per-game wins within totalWins) in every state,
\* and totalGames, totalWins, bestWinStreak, snakeHighScore and the per-game
\* win counters never decrease.
C31_StatsOrderedNeverDecrease ==
    [][/\ StatsOrdered(PlayerStats')
       /\ StatsNotSmaller(PlayerStats, PlayerStats')]_vars

\* The catalogue entries that checkAchievements has no entry for
UncheckedIds == {"snake_no_walls", "sl_ladder_3", "sl_comeback", "uno_speedrun"}

\* C32: snake_no_walls, sl_ladder_3, sl_comeback and uno_speedrun are never
\* returned or unlocked by a trackGamePlayed call; a step that unlocks one
\* of them in the player's list is a checkAndUnlock call that returned true.
C32_UncheckedOnlyByCheck ==
    [][\A id \in UncheckedIds :
          /\ IsTrackStep =>
                /\ id \notin Batch(lastRet')
                /\ IsUnlocked(achievements', id) => IsUnlocked(achievements, id)
                /\ IsUnlocked(achStorage'.achievements, id)
                      => IsUnlocked(rAchievements, id)
          /\ (~IsUnlocked(PlayerAchievements, id)
                 /\ IsUnlocked(PlayerAchievements', id))
                => IsCheckStep /\ lastRet'.ok]_vars

\* Three calls of trackGamePlayed and none of checkAndUnlock: achievements
\* of uno and of the flags are unlocked, the four are locked
C32_Witness ==
    /\ lastCall = "track"
    /\ calls = 3
    /\ checkAwarded = {}
    /\ achievements.full
    /\ IsUnlocked(achievements, "uno_first_win")
    /\ IsUnlocked(achievements, "sl_no_snakes")
    /\ \A id \in UncheckedIds : ~IsUnlocked(achievements, id)

(***************************************************************************)
(* Properties of SnakeGame                                                 *)
(***************************************************************************)

\* C26: a round of Snake is reported once: no trackGamePlayed call while
\* the round is on, and exactly one for the round that is over, whatever
\* ticks of the game loop and invocations of the setSnake updater happen
\* before the component renders the game over.
C26_OneTrackPerRound ==
    roundTracks = IF gameState = "gameover" THEN 1 ELSE 0

(***************************************************************************)
(* Properties of the client hook                                           *)
(***************************************************************************)

\* 10, 7, 25 submitted by one player to an empty table
SnakeExample ==
    LET s1 == SubmitSnakeScoreLocal(EmptyStore, "0xa", 10)
        s2 == SubmitSnakeScoreLocal(s1, "0xa", 7)
        s3 == SubmitSnakeScoreLocal(s2, "0xa", 25)
    IN  Get(s3.scores, "0xa", 0) = 25

\* C1: the snake high score stored for a player is the maximum of the
\* scores that player's successful local submissions carried (10, 7, 25
\* gives 25), whatever other players submitted.
C1_HighScoreIsMax ==
    /\ SnakeExample
    /\ \A a \in Players : Get(ls.scores, a, 0) = snakeMax[a]

\* C1 witness: player 0xa, whose high score was 120, has submitted a lower
\* score (a third game, the high score still 120) and player 0xb has 25.
C1_Witness ==
    /\ Get(ls.scores, "0xa", 0) = 120
    /\ Get(ls.games, "0xa", 0) = 3
    /\ Get(ls.scores, "0xb", 0) = 25

\* The win/loss table of a game type
Table(store, op) ==
    CASE op = "tictactoe" -> store.ttt
      [] op = "snakeladders" -> store.sl
      [] op = "uno" -> store.uno

WinLossGames == {"tictactoe", "snakeladders", "uno"}

Played(store, op, a) ==
    LET st == Get(Table(store, op), a, NoStats) IN st.wins + st.losses

\* C8: no step lowers a player's stored snake high score or the wins +
\* losses of a game type; a successful submission for a win/loss game adds
\* 1 to wins (won) or to losses (lost) and leaves the other as it was.
C8_CountersNeverDecrease ==
    [][/\ \A a \in Players :
            /\ Get(ls'.scores, a, 0) >= Get(ls.scores, a, 0)
            /\ \A g \in WinLossGames : Played(ls', g, a) >= Played(ls, g, a)
       /\ (TimerFires /\ Head(pending).op \in WinLossGames) =>
            LET c == Head(pending)
                before == Get(Table(ls, c.op), c.addr, NoStats)
                after == Get(Table(ls', c.op), c.addr, NoStats)
            IN  IF c.won
                THEN after.wins = before.wins + 1 /\ after.losses = before.losses
                ELSE after.wins = before.wins /\ after.losses = before.losses + 1
      ]_vars

\* C8 witness: player 0xa, with one uno win and no loss stored, has
\* submitted a lost uno game.
C8_Witness ==
    /\ lastDone.op = "uno" /\ lastDone.ok /\ lastDone.addr = "0xa"
    /\ Get(ls.uno, "0xa", NoStats) = [wins |-> 1, losses |-> 1]

\* totalXp of an address, from the stored counters
TotalXp(store, a) ==
    Get(store.scores, a, 0)
    + 50 * (Get(store.ttt, a, NoStats).wins + Get(store.sl, a, NoStats).wins
            + Get(store.uno, a, NoStats).wins)

\* snakeHighScore 120 with three wins (and one loss)
ProfileExample ==
    LET p == UserProfileLocal(EarlierSessions, "0xa")
    IN  p.snakeHighScore = 120 /\ p.level = 1 /\ p.xp = 270

\* C10: a getUserProfile call served by the local store returns
\* level = floor(totalXp / 500) + 1 and xp = totalXp mod 500 for
\* totalXp = snakeHighScore + 50 * (wins of the three win/loss games) of the
\* target address; 120 with 3 wins gives level 1 and xp 270.
C10_LevelAndXp ==
    [][/\ ProfileExample
       /\ \A address \in ProfileTargets :
            (GetUserProfile(address) /\ lastDone'.served = "local") =>
                /\ ~lastDone'.profile.isNull
                /\ lastDone'.profile.level =
                       (TotalXp(ls, lastDone'.addr) \div 500) + 1
                /\ lastDone'.profile.xp = TotalXp(ls, lastDone'.addr) % 500
      ]_vars

\* C10 witness: a profile past the first level: 400 + 3 * 50 = 550.
C10_Witness ==
    /\ lastDone.op = "getUserProfile" /\ lastDone.served = "local"
    /\ lastDone.profile.snakeHighScore = 400
    /\ lastDone.profile.level = 2
    /\ lastDone.profile.xp = 50

\* level and xp of a profile are those of snakeHighScore + 50 * total wins
\* written in base 500
LevelAndXpOf(p) ==
    /\ 0 <= p.xp /\ p.xp < 500
    /\ (p.level - 1) * 500 + p.xp =
           p.snakeHighScore
           + 50 * (p.tictactoeWins + p.snakeLaddersWins + p.unoWins)

\* C35: for each player, the level a local getUserProfile returns never
\* decreases from one state of the store to the next, whatever submission
\* or profile update is applied; the returned xp satisfies 0 <= xp < 500 and
\* (level - 1) * 500 + xp = snakeHighScore + 50 * total wins.
C35_LevelNeverDecreases ==
    [][/\ \A a \in Players :
            /\ UserProfileLocal(ls', a).level >= UserProfileLocal(ls, a).level
            /\ LevelAndXpOf(UserProfileLocal(ls', a))
       /\ \A address \in ProfileTargets :
            (GetUserProfile(address) /\ lastDone'.served = "local") =>
                /\ lastDone'.profile = UserProfileLocal(ls, lastDone'.addr)
                /\ LevelAndXpOf(lastDone'.profile)
      ]_vars

\* C35 witness: player 0xa, at level 1 when the run began, is returned
\* level 2 after a snake score of 400
C35_Witness ==
    /\ lastDone.op = "getUserProfile" /\ lastDone.served = "local"
    /\ lastDone.addr = "0xa"
    /\ UserProfileLocal(EarlierSessions, "0xa").level = 1
    /\ lastDone.profile.level = 2
    /\ LevelAndXpOf(lastDone.profile)

\* C4: in a session the remote initialization is attempted at most once;
\* once it was attempted and failed, no step before the next reload
\* attempts it again or gets true from initializeLinera, and the session
\* stays in demo mode with every call served by the local store.
C4_SelectionOncePerSession ==
    [][/\ initAttempts' <= 1
       /\ hook'.usingDemoMode /\ ~servedRemote'
       /\ lastDone'.served # "remote"
       /\ (modState.initializationAttempted /\ ~ClientReload) =>
            /\ initAttempts' = initAttempts
            /\ lastInitRet' = FALSE
            /\ modState' = modState
      ]_vars

\* C4 witness: a configured build; the mount effect and connect() have
\* both called initializeLinera in this session, one attempt was made, and
\* a submission of this session is waiting on the local adapter's timer.
C4_Witness ==
    /\ appConfigured /\ initAttempted
    /\ initAttempts = 1 /\ connectTimers = 1
    /\ pending # <<>>

(***************************************************************************)
(* Properties of the operations without a connection                       *)
(***************************************************************************)

\* The operations that change the store
WritingOps ==
    {"snake", "tictactoe", "snakeladders", "uno", "profile", "createRoom",
     "joinRoom"}

\* This step is a call of one of these operations
IsWritingCall == cCalls' = cCalls + 1 /\ lastDone'.op \in WritingOps

Defaulted(store) ==
    [store EXCEPT
        !.scores = IF "scores" \in store.corrupt THEN NoEntries ELSE @,
        !.games = IF "games" \in store.corrupt THEN NoEntries ELSE @,
        !.ttt = IF "ttt" \in store.corrupt THEN NoEntries ELSE @,
        !.profiles = IF "profiles" \in store.corrupt THEN NoEntries ELSE @,
        !.corrupt = {}]

\* The keys an operation reads
KeysRead(op) == IF op = "snake" THEN {"scores", "games"} ELSE ParsedFirst(op)

\* C16: a read of a key whose text is not JSON is taken as the zero value:
\* a submission or profile update proceeds as on an empty table and returns
\* true, getUserProfile answers from zero counters instead of null, and
\* the start-up load of the achievement record leaves the all-locked list
\* and zero stats without throwing.
C16_CorruptReadDefaults ==
    [][/\ (TimerFires /\ KeysRead(Head(pending).op) \cap ls.corrupt # {})
          => /\ lastDone'.ok
             /\ \A k \in {"scores", "games", "ttt", "profiles"} :
                    ls'[k] = ApplyLocal(Defaulted(ls), Head(pending))[k]
       /\ \A address \in ProfileTargets :
             (GetUserProfile(address) /\ lastDone'.served = "local"
                 /\ ProfileKeys \cap ls.corrupt # {})
             => lastDone'.profile
                    = UserProfileLocal(Defaulted(ls), lastDone'.addr)
       /\ (LoadEffect /\ achStorage = CorruptItem)
          => /\ achievements' = AllLocked
             /\ stats' = ZeroStats
             /\ lastCall' # "threw"]_vars

(***************************************************************************)
(* Properties of the leaderboard                                           *)
(***************************************************************************)

\* The addresses with an entry in one of the four stat tables
PlayerSet(t) ==
    {t.scores[i].k : i \in DOMAIN t.scores} \cup {t.ttt[i].k : i \in DOMAIN t.ttt}
    \cup {t.sl[i].k : i \in DOMAIN t.sl} \cup {t.uno[i].k : i \in DOMAIN t.uno}

\* The last query was answered from readable stored tables with players
LocalRanking ==
    lbRet.from = "local" /\ tables.readable /\ PlayerSet(tables) # {}

Listed(list) == {list[i].playerAddress : i \in DOMAIN list}

Smaller(a, b) == IF a <= b THEN a ELSE b

\* C11: a local leaderboard over a non-empty player set is in order of
\* non-increasing score, carries the ranks 1..n in list order, has at most
\* `limit` entries, and these are the top of the full ranking: one entry
\* per listed player, min(limit, players) of them, no unlisted player
\* scoring more than a listed one.
C11_SortedRankedTruncated ==
    LocalRanking =>
        LET list == lbRet.list
            score(a) == PlayerScoring(tables, lbRet.gameType, a).score
        IN  /\ \A i, j \in DOMAIN list : i < j => list[i].score >= list[j].score
            /\ \A i \in DOMAIN list : list[i].rank = i
            /\ Len(list) <= lbRet.limit
            /\ Len(list) = Smaller(lbRet.limit, Cardinality(PlayerSet(tables)))
            /\ Cardinality(Listed(list)) = Len(list)
            /\ \A i \in DOMAIN list :
                   /\ list[i].playerAddress \in PlayerSet(tables)
                   /\ list[i].score = score(list[i].playerAddress)
            /\ \A a \in PlayerSet(tables) \ Listed(list) :
                   \A i \in DOMAIN list : list[i].score >= score(a)

\* C11 witness: three players, the two best listed, the stored order of the
\* table being the reverse of the ranking.
C11_Witness ==
    /\ LocalRanking /\ lbRet.gameType = "snake" /\ lbRet.limit = 2
    /\ tables.scores = <<Entry(B, 30), Entry(A, 400)>>
    /\ tables.ttt = <<Entry(C, [wins |-> 2, losses |-> 0]),
                      Entry(A, [wins |-> 0, losses |-> 1])>>
    /\ Len(lbRet.list) = 2
    /\ lbRet.list[1].playerAddress = A /\ lbRet.list[2].playerAddress = B

\* The place of an address in the iteration over the keys of the snake,
\* tictactoe, snakeladders and uno tables
IterationPlace(t, a) ==
    LET keys == Keys(t.scores) \o Keys(t.ttt) \o Keys(t.sl) \o Keys(t.uno)
    IN  CHOOSE i \in DOMAIN keys :
            keys[i] = a /\ \A j \in DOMAIN keys : keys[j] = a => i <= j

\* A = 100, B = 250, C = 250 with B iterated before C
TieExample ==
    LET t == [readable |-> TRUE,
              scores |-> <<Entry(A, 100), Entry(B, 250), Entry(C, 250)>>,
              ttt |-> <<>>, sl |-> <<>>, uno |-> <<>>, games |-> <<>>]
        list == LeaderboardLocal(t, "snake", 10)
    IN  [i \in DOMAIN list |-> list[i].playerAddress] = <<B, C, A>>

\* C12: listed players of equal score stand in their iteration order (B, C,
\* A in the example), and a query repeated on the same stored data returns
\* the same list.
C12_TiesKeepIterationOrder ==
    [][/\ TieExample
       /\ (lbRet'.from = "local" /\ tables'.readable) =>
            \A i, j \in DOMAIN lbRet'.list :
                (i < j /\ lbRet'.list[i].score = lbRet'.list[j].score) =>
                    IterationPlace(tables', lbRet'.list[i].playerAddress)
                    < IterationPlace(tables', lbRet'.list[j].playerAddress)
       /\ (/\ lbRet.from = "local" /\ lbRet'.from = "local"
           /\ lbRet'.gameType = lbRet.gameType /\ lbRet'.limit = lbRet.limit)
          => lbRet'.list = lbRet.list
      ]_vars

\* C12 witness: C and B tie at 250 and C, stored first, is ranked first.
C12_Witness ==
    /\ LocalRanking /\ lbRet.gameType = "snake" /\ lbRet.limit = 10
    /\ tables.scores = <<Entry(C, 250), Entry(B, 250), Entry(A, 100)>>
    /\ lbRet.list[1].playerAddress = C /\ lbRet.list[2].playerAddress = B
    /\ lbRet.list[1].score = lbRet.list[2].score

\* The canned demo players
DemoNames == {DemoPlayers[i][1] : i \in DOMAIN DemoPlayers}

IsPlaceholder(list) ==
    list # <<>> /\ \A i \in DOMAIN list : list[i].playerName \in DemoNames

\* The table of a game type has no entry (for the aggregate: no table has)
NoStatsFor(t, gameType) ==
    CASE gameType = "snake" -> t.scores = <<>>
      [] gameType = "tictactoe" -> t.ttt = <<>>
      [] gameType = "snakeladders" -> t.sl = <<>>
      [] gameType = "uno" -> t.uno = <<>>
      [] OTHER -> PlayerSet(t) = {}

\* C13: when no player has stats for the requested game type, the local
\* leaderboard is the placeholder list.
C13_PlaceholderWhenNoStats ==
    (lbRet.from = "local" /\ tables.readable
        /\ NoStatsFor(tables, lbRet.gameType))
    => IsPlaceholder(lbRet.list)

\* C14: a leaderboard query, whether answered by the hook or by the remote
\* adapter, never returns an empty list; when the stored tables are
\* unreadable or no application is bound it returns the placeholder list.
C14_NeverEmpty ==
    /\ lbRet.from # "none" => lbRet.list # <<>>
    /\ (lbRet.from = "local" /\ ~tables.readable) => IsPlaceholder(lbRet.list)
    /\ (lbRet.from \in {"remote", "adapter"} /\ ~LcApplicationBound(lc))
       => IsPlaceholder(lbRet.list)

\* The stored wins and losses of an address for a win/loss game type
StoredStats(t, gameType, a) ==
    CASE gameType = "tictactoe" -> Lookup(t.ttt, a, NoStats)
      [] gameType = "snakeladders" -> Lookup(t.sl, a, NoStats)
      [] gameType = "uno" -> Lookup(t.uno, a, NoStats)

\* round(100 * w / n): the nearest integer, halves up
RoundedPercent(w, n) == (200 * w + n) \div (2 * n)

\* C17: on the leaderboard of a win/loss game type an entry of a player
\* with wins + losses > 0 has gamesPlayed = wins + losses and
\* winRate = round(100 * wins / (wins + losses)); every winRate is within
\* 0..100; 1 win and 2 losses give 33.
C17_WinRate ==
    /\ WinRate(1, 3) = 33
    /\ (LocalRanking /\ lbRet.gameType \in WinLossGames) =>
        \A i \in DOMAIN lbRet.list :
            LET st == StoredStats(tables, lbRet.gameType,
                                  lbRet.list[i].playerAddress)
            IN  /\ lbRet.list[i].winRate \in 0..100
                /\ st.wins + st.losses > 0 =>
                    /\ lbRet.list[i].gamesPlayed = st.wins + st.losses
                    /\ lbRet.list[i].winRate =
                           RoundedPercent(st.wins, st.wins + st.losses)

\* C18: on the aggregate leaderboard a player's score is the sum of the
\* scores the player has on the snake, tictactoe, snakeladders and uno
\* leaderboards.
C18_AggregateIsSum ==
    (LocalRanking /\ lbRet.gameType = "all") =>
        \A i \in DOMAIN lbRet.list :
            LET a == lbRet.list[i].playerAddress
            IN  lbRet.list[i].score =
                    PlayerScoring(tables, "snake", a).score
                    + PlayerScoring(tables, "tictactoe", a).score
                    + PlayerScoring(tables, "snakeladders", a).score
                    + PlayerScoring(tables, "uno", a).score

(***************************************************************************)
(* Properties of the remote adapter                                        *)
(***************************************************************************)

\* The failure value of each operation: false, null, the empty list or 0
FailureValue(op) ==
    CASE op \in DataOps \cup {"joinRoom"} -> "false"
      [] op \in {"createRoom", "getUserProfile"} -> "null"
      [] op \in {"getLeaderboard", "getActiveRooms"} -> "[]"
      [] op = "getSnakeHighScore" -> "0"

\* The one query of the operation failed, or none could be issued
CallFailed == lcRet.calls = 0 \/ lcRet.response \in {"throws", "notjson"}

C23_AddressStable ==
    hook.wallet # NoWallet => hook.wallet = sessionAddress

(***************************************************************************)
(* Properties of the stored profiles                                       *)
(***************************************************************************)

\* The step changes the profiles table only as the body of an updateProfile
\* call of player c.addr does: that player's entry and nothing else
ProfilesChangedByOwner ==
    ls'.profiles # ls.profiles =>
        /\ pending # <<>>
        /\ Head(pending).op = "profile"
        /\ TimerFires
        /\ LET c == Head(pending)
           IN  /\ DOMAIN ls'.profiles = DOMAIN ls.profiles \cup {c.addr}
               /\ \A a \in DOMAIN ls.profiles \ {c.addr} :
                      ls'.profiles[a] = ls.profiles[a]
               /\ ls'.profiles[c.addr] = [username |-> c.name, avatarId |-> c.n]

\* The body of an updateProfile call leaves the stats tables as they were
ProfileLeavesStats ==
    (TimerFires /\ pending # <<>> /\ Head(pending).op = "profile") =>
        /\ ls'.scores = ls.scores
        /\ ls'.games = ls.games
        /\ ls'.ttt = ls.ttt
        /\ ls'.sl = ls.sl
        /\ ls'.uno = ls.uno
        /\ ls'.rooms = ls.rooms

\* A getUserProfile answered from the store returns the stored username and
\* avatarId of its target, and the defaults exactly when none is stored
ProfileReadReturnsStored ==
    \A address \in ProfileTargets :
        (GetUserProfile(address) /\ lastDone'.served = "local") =>
            LET t == lastDone'.addr
                got == lastDone'.profile
            IN  /\ ~got.isNull
                /\ IF t \in DOMAIN ls.profiles
                   THEN /\ got.username = ls.profiles[t].username
                        /\ got.avatarId = ls.profiles[t].avatarId
                   ELSE /\ got.username = "Anonymous Player"
                        /\ got.avatarId = 0

\* C24: only a player's updateProfile creates or changes that player's
\* stored profile, it changes nothing else, and getUserProfile returns the
\* stored username and avatarId, or the defaults when no profile is stored
C24_ProfileOnlyByUpdate ==
    [][ProfilesChangedByOwner /\ ProfileLeavesStats
        /\ ProfileReadReturnsStored]_vars

(***************************************************************************)
(* Properties of two tabs on one store                                     *)
(***************************************************************************)

\* wins + losses of the player's stored tic-tac-toe entry
StoredResults(store) ==
    LET st == Get(store.ttt, store.wallet, NoStats) IN st.wins + st.losses

\* C27: the last writer wins: what is stored after a write is what the
\* writing tab had parsed plus its own result, whatever the other tab wrote
\* in between, so that stored wins + losses can end below the number of
\* successful submissions (and never above it)
C27_LastWriterWins ==
    /\ StoredResults(ls) <= StoredResults(EarlierSessions) + submitted
    /\ lastWrite.tab # 0 =>
           ls.ttt = Put(lastWrite.read, ls.wallet,
                        CountResult(Get(lastWrite.read, ls.wallet, NoStats),
                                    lastWrite.won))

\* Both tabs made one call, both returned true, and the stored entry
\* counts one result more than before instead of two
C27_Witness ==
    /\ \A t \in Tabs : tabs[t].pc = "idle"
    /\ tabCalls = 2
    /\ submitted = 2
    /\ StoredResults(ls) = StoredResults(EarlierSessions) + 1

(***************************************************************************)
(* Properties of the local room table                                      *)
(***************************************************************************)

\* Every room of the table has between one player and maxPlayers players
RoomsBounded(rooms) ==
    \A i \in DOMAIN rooms :
        1 <= rooms[i].players /\ rooms[i].players <= rooms[i].maxPlayers

\* This step is the body of a joinRoom call
IsJoinStep == TimerFires /\ pending # <<>> /\ Head(pending).op = "joinRoom"

\* A joinRoom on an unknown or full room returns false and leaves the table;
\* an accepted one adds one player to that room and changes no other room
JoinChangesOneRoom ==
    IsJoinStep =>
        LET roomId == Head(pending).roomId
            known == {i \in DOMAIN ls.rooms : ls.rooms[i].id = roomId}
            \* the room the id stands for: the first of the table with it
            room == CHOOSE i \in known : \A j \in known : i <= j
        IN  IF known = {} \/ ls.rooms[room].players >= ls.rooms[room].maxPlayers
            THEN ~lastDone'.ok /\ ls'.rooms = ls.rooms
            ELSE /\ lastDone'.ok
                 /\ DOMAIN ls'.rooms = DOMAIN ls.rooms
                 /\ ls'.rooms[room].players = ls.rooms[room].players + 1
                 /\ \A j \in DOMAIN ls.rooms \ {room} :
                        ls'.rooms[j] = ls.rooms[j]

\* C33: every room of the local table has 1 <= players <= maxPlayers; a
\* joinRoom on an unknown or full room returns false and changes nothing,
\* and a successful one adds one player to that room alone.
C33_RoomsBoundedJoinExact ==
    [][RoomsBounded(ls'.rooms) /\ JoinChangesOneRoom]_vars

\* A room's status is 'playing' exactly when it is full
StatusMatches(rooms) ==
    \A i \in DOMAIN rooms :
        rooms[i].status = (IF rooms[i].players >= rooms[i].maxPlayers
                           THEN "playing" ELSE "waiting")

\* C34: a room's status is 'playing' iff its players count has reached
\* maxPlayers and 'waiting' otherwise, and no step moves a room back from
\* 'playing' to 'waiting'.
C34_StatusIffFull ==
    [][/\ StatusMatches(ls'.rooms)
       /\ \A i \in DOMAIN ls.rooms :
              ls.rooms[i].status = "playing"
              => i \in DOMAIN ls'.rooms /\ ls'.rooms[i].status = "playing"]_vars

(***************************************************************************)
(* Properties of overlapping submissions in one session                    *)
(***************************************************************************)

\* The tic-tac-toe and uno results stored for the player of the session
ResultsStored(store) ==
    Played(store, "tictactoe", "0xa") + Played(store, "uno", "0xa")

\* C36: when k submissions are started before any of them completes and
\* all return true, every one of them is counted: the stored wins + losses
\* and the calls still waiting add up to the stored value at the start plus
\* k, so that the stored value has grown by exactly k when none is waiting.
C36_OverlappingAllCounted ==
    (cCalls > 0 /\ (lastDone = NoDone \/ lastDone.ok)) =>
        /\ ResultsStored(ls) + Len(pending)
              = ResultsStored(EarlierSessions) + cCalls
        /\ pending = <<>> =>
              ResultsStored(ls) = ResultsStored(EarlierSessions) + cCalls

\* Three submitTicTacToeResult calls were started before the first
\* completed, all three returned true, and three more results are stored
C36_Witness ==
    /\ pending = <<>>
    /\ cCalls = 3
    /\ lastDone.op = "tictactoe" /\ lastDone.ok
    /\ Played(ls, "tictactoe", "0xa")
          = Played(EarlierSessions, "tictactoe", "0xa") + 3


(***************************************************************************)
(* Properties of the membership of the local leaderboard                   *)
(***************************************************************************)

\* The address has no entry in the table of the game type
NeverPlayed(t, gameType, a) ==
    CASE gameType = "snake" -> \A i \in DOMAIN t.scores : t.scores[i].k # a
      [] gameType = "tictactoe" -> \A i \in DOMAIN t.ttt : t.ttt[i].k # a
      [] gameType = "snakeladders" -> \A i \in DOMAIN t.sl : t.sl[i].k # a
      [] gameType = "uno" -> \A i \in DOMAIN t.uno : t.uno[i].k # a
      [] OTHER -> FALSE

\* One entry for each address of the four stat tables, min(limit, addresses)
\* of them; score 0 for who never played the game type; gamesPlayed >= 1
ListsEveryAddress(list, t, gameType, limit) ==
    /\ Len(list) = Smaller(limit, Cardinality(PlayerSet(t)))
    /\ Listed(list) \subseteq PlayerSet(t)
    /\ Cardinality(Listed(list)) = Len(list)
    /\ limit >= Cardinality(PlayerSet(t)) => Listed(list) = PlayerSet(t)
    /\ \A i \in DOMAIN list :
           /\ NeverPlayed(t, gameType, list[i].playerAddress)
              => list[i].score = 0
           /\ list[i].gamesPlayed >= 1

====
